---- MODULE Spec2Model ----
(***************************************************************************)
(* Ash Diver -- procedural blueprint generator (src/generate_blueprint.py) *)
(* as a state machine.  One BlueprintGenerator runs the nine-step pipeline *)
(* generate(); every draw from self.rng is a nondeterministic choice over  *)
(* the outcomes the draw can have, so the behaviours of a specification    *)
(* are the runs of all seeds.  Grid dimensions are scaled down; the        *)
(* margins the code hard-wires (h - 5, surface_max + 10, ...) keep their   *)
(* values.                                                                 *)
(***************************************************************************)
EXTENDS Integers, Sequences, FiniteSets, TLC

VARIABLES
    cfg,            \* self.cfg: the BlueprintConfig of the run
    pc,             \* position of the run inside generate()
    grid,           \* self.grid[y][x]
    surface,        \* the local array `surface` of _step2_surface
    surface_line,   \* self.surface_line (<<>> stands for None)
    wx, wy,         \* loop variables x, y of the function being executed
    lastMove,       \* the draws of the last walk iteration
    br,             \* the branch being carved: bx, by, branch_dir, steps left
    ti,             \* index into start_xs of the tunnel being carved
    ci,             \* number of caves carved so far
    regions,        \* _step6_connect: the list `regions`
    ri,             \* _step6_connect: loop index i
    surface_set,    \* _step6_connect: surface_set
    link,           \* _step6_connect: the last pair (best_a, best_b) carved
    entry,          \* _step7: "none" | "found" | "carved"
    spawn,          \* _step8: <<spawn_x, spawn_y>> (<<>> before)
    goal,           \* _step8: best_goal (<<>> stands for None)
    fault,          \* exception raised by the run ("none" when none)
    prev,           \* history: the grid before the last of the steps 5 to 9
    run,            \* 0: a single run; 1, 2: first/second generator of a pair
    tape,           \* outcomes the seed's stream produced, in draw order
    pos,            \* draws the current generator has consumed
    first,          \* history: result of the first generator of a pair
    cli             \* main(): the arguments, the loop variable `seed`, what
                    \* has been generated, verified and exported, the
                    \* list failed_seeds and the exit code

vars == <<cfg, pc, grid, surface, surface_line, wx, wy, lastMove, br, ti, ci,
          regions, ri, surface_set, link, entry, spawn, goal, fault, prev,
          run, tape, pos, first, cli>>

----------------------------------------------------------------------------
(* Tile constants                                                          *)

T_AIR == 0
T_TOP == 1
T_FILL == 2
T_GOAL == 8
T_SPAWN == 9

TileKinds == {T_AIR, T_TOP, T_FILL, T_GOAL, T_SPAWN}


----------------------------------------------------------------------------
(* Margins and counts the generator hard-wires                             *)

TunnelFloorMargin == 5      \* max_depth = h - 5
BranchFloorMargin == 20     \* branch only while y < h - 20
BranchLenMin == 10          \* rng.integers(10, 30)
BranchLenEnd == 30
BranchStopMargin == 2       \* a branch breaks at by >= h - 2
CaveSurfaceMargin == 10     \* surface_max = max(surface_line) + 10
CaveBoxMargin == 2          \* r_max + 2 around a cave centre
UndergroundMargin == 2      \* underground_start = max(surface_line) + 2
EntryCheckDepth == 5        \* rows checked: up to underground_start + 5
EntryCarveDepth == 10       \* rows carved: up to underground_start + 10
SpawnEdgeMargin == 5        \* spawn columns in [5, w - 5)
SpawnWindowHalf == 2        \* flatness window x-2 .. x+2
FlatnessWeight == 10        \* score = flatness * 10 + dist
ClearanceSampleCap == 50     \* sample_size = min(50, len(top_positions))
ClearanceEnd == 4            \* for dy in range(1, 4)
ClearanceTenth == 10         \* clearance_fails > sample_size * 0.1, as fails * 10 > size
DepthWeight == 2            \* goal score = depth * 2 + dist

----------------------------------------------------------------------------
(* Bounds of the model                                                     *)

\* stands for the 200 of min(200, len(region)): small enough that a region
\* of the scaled grid is sub-sampled as a large region of the real grid is
SampleCap == 2
\* longest stream of draws a recorded run may consume
MaxDraws == 14
\* width and height of the grids the single-stage specifications enumerate
StageW == 3
StageH == 3
\* largest N of --fuzz N
MaxFuzz == 2
\* the grid step 8 is run on for its choice of the spawn column
SpawnW == 14
SpawnH == 4
\* largest grid handed to export_csv on its own
CsvW == 3
CsvH == 2
\* the grids step 9 and the verifier are run on for the clearance rule
ClearW == 1
ClearH == 5
\* width and height of the grids of every tile kind the top-tile stage is
\* run on
TopW == 2
TopH == 3

----------------------------------------------------------------------------
(* Arithmetic helpers                                                      *)

Min(a, b) == IF a < b THEN a ELSE b
Max(a, b) == IF a > b THEN a ELSE b
Abs(a) == IF a < 0 THEN -a ELSE a

\* np.clip(v, lo, hi)
\* a clip that lets every value through
NoClip(v, lo, hi) == v

Clip(v, lo, hi) == Min(Max(v, lo), hi)

\* range(a, b)
Range(a, b) == a .. (b - 1)

W == cfg.width
H == cfg.height
Half == cfg.tunnel_min_width \div 2

InGrid(x, y) == 0 <= x /\ x < W /\ 0 <= y /\ y < H

\* grid with every cell of S that lies inside the grid set to v
SetCells(g, S, v) ==
    [y \in Range(0, H) |-> [x \in Range(0, W) |->
        IF <<x, y>> \in S THEN v ELSE g[y][x]]]

\* a slice that stops one row short, [:y - 1] for y >= 1
SliceEndShort(y, h) == Max(Min(y, h) - 1, 0)

\* number of rows the slice [:y] selects out of h rows
SliceEnd(y, h) == IF y >= 0 THEN Min(y, h) ELSE Max(h + y, 0)

----------------------------------------------------------------------------
(* The random stream.  np.random.default_rng(seed) is a function of the    *)
(* seed: the k-th draw of a generator has the outcome the seed's stream    *)
(* holds at place k.  `tape` is that stream as far as a draw has read it,  *)
(* `pos` the place of the current generator.  A single run (run = 0) reads *)
(* every place once and does not record it.  Of a pair of generators built *)
(* from one seed (run = 1, then run = 2) a draw at a place already read    *)
(* has the outcome read there.                                             *)

Draw(ds) ==
    IF run = 0 THEN UNCHANGED <<tape, pos>>
    ELSE /\ pos + Len(ds) <= MaxDraws
         /\ \A i \in 1..Len(ds) : pos + i <= Len(tape) => tape[pos + i] = ds[i]
         /\ tape' = IF pos + Len(ds) <= Len(tape) THEN tape
                    ELSE SubSeq(tape, 1, pos) \o ds
         /\ pos' = pos + Len(ds)

NoDraw == UNCHANGED <<tape, pos>>

----------------------------------------------------------------------------
(* Configurations                                                          *)

\* The defaults of BlueprintConfig scaled to a grid TLC can enumerate:
\* as with the defaults the surface lies below row 0, the sky is larger
\* than min_region_size and the ranges of the cave centres are not empty.
\* Two tunnels, from both edges, and no cave.
TunnelCfg ==
    [ width |-> 4, height |-> 9,
      surface_y_min |-> 1, surface_y_max |-> 2, surface_step_max |-> 1,
      num_tunnels |-> 2, tunnel_min_width |-> 3,
      tunnel_vertical_clearance |-> 3, tunnel_branch_pct |-> 15,
      num_caves |-> 0, cave_radius_min |-> 1, cave_radius_max |-> 1,
      cave_noise_pct |-> 35,
      min_region_size |-> 3 ]

\* One cave below a flat surface and no tunnel: the cave is cut off from
\* the sky until the connectivity step joins it.
CaveCfg ==
    [TunnelCfg EXCEPT !.width = 7, !.height = 20, !.surface_y_max = 1,
                      !.num_tunnels = 0, !.num_caves = 1]

\* One tunnel in a grid high enough for a branch (y < h - 20).
BranchCfg ==
    [TunnelCfg EXCEPT !.width = 3, !.height = 22, !.surface_y_max = 1,
                      !.num_tunnels = 1]

\* A grid wide enough for the spawn search to have columns to score
\* (range(max(5, 6 - 3), min(12 - 5, 6 + 3)) = 5..6), no tunnel, no cave.
SpawnCfg ==
    [TunnelCfg EXCEPT !.width = 12, !.height = 8, !.num_tunnels = 0]

DefaultCfgs == {TunnelCfg, CaveCfg, BranchCfg, SpawnCfg}

\* A grid too narrow for the range of the cave centres.
NarrowCfg == [TunnelCfg EXCEPT !.num_tunnels = 0, !.num_caves = 1]

\* surface_y_min = 0: a column's surface may be row 0.
SkylessCfg ==
    [TunnelCfg EXCEPT !.surface_y_min = 0, !.surface_y_max = 1,
                      !.num_tunnels = 0]

\* No tunnel, no cave and a min_region_size no region of the grid reaches.
DegenerateCfg == [TunnelCfg EXCEPT !.num_tunnels = 0, !.min_region_size = 100]

AnyCfgs == DefaultCfgs \cup {NarrowCfg, SkylessCfg, DegenerateCfg}

\* a generator used without main(): no arguments, nothing recorded
NoCli ==
    [mode |-> "none", n |-> 0, verify |-> FALSE, seed |-> 0, built |-> <<>>,
     verified |-> <<>>, failed_seeds |-> <<>>, files |-> <<>>, csv |-> <<>>,
     streams |-> <<>>, exit |-> -1]

NoMove == [dir |-> "none", extra |-> FALSE]
NoBranch == [x |-> 0, y |-> 0, dir |-> 0, left |-> 0]

\* a grid that starts out all T_AIR
NewGridAir(c) ==
    [y \in Range(0, c.height) |-> [x \in Range(0, c.width) |-> T_AIR]]

\* __init__: self.grid = np.full((height, width), T_FILL)
NewGrid(c) ==
    [y \in Range(0, c.height) |-> [x \in Range(0, c.width) |-> T_FILL]]

Construct(c, r) ==
    /\ cfg = c
    /\ pc = "init"
    /\ grid = NewGrid(c)
    /\ surface = <<>>
    /\ surface_line = <<>>
    /\ wx = 0 /\ wy = 0
    /\ lastMove = NoMove
    /\ br = NoBranch
    /\ ti = 0 /\ ci = 0
    /\ regions = <<>> /\ ri = 0 /\ surface_set = {}
    /\ link = <<>>
    /\ entry = "none"
    /\ spawn = <<>> /\ goal = <<>>
    /\ fault = "none"
    /\ prev = NewGrid(c)
    /\ run = r
    /\ tape = <<>> /\ pos = 0
    /\ first = <<>>
    /\ cli = NoCli

Init == \E c \in DefaultCfgs : Construct(c, 0)

\* a generator that goes on in the stream where the one before it stopped
SharedStreamPos == pos

\* self.rng = np.random.default_rng(self.cfg.seed): a generator starts at
\* the first place of its seed's stream
SeededPos == 0

\* BlueprintGenerator(config) a second time, for the same Config, once the
\* first generator has returned its grid; `first` keeps what it produced
Reconstruct ==
    /\ run = 1
    /\ pc = "done"
    /\ first' = [grid |-> grid, surface_line |-> surface_line]
    /\ run' = 2
    /\ pos' = SeededPos
    /\ pc' = "init"
    /\ grid' = NewGrid(cfg)
    /\ surface' = <<>>
    /\ surface_line' = <<>>
    /\ wx' = 0 /\ wy' = 0
    /\ lastMove' = NoMove
    /\ br' = NoBranch
    /\ ti' = 0 /\ ci' = 0
    /\ regions' = <<>> /\ ri' = 0 /\ surface_set' = {}
    /\ link' = <<>>
    /\ entry' = "none"
    /\ spawn' = <<>> /\ goal' = <<>>
    /\ prev' = NewGrid(cfg)
    /\ UNCHANGED <<cli, cfg, fault, tape>>

----------------------------------------------------------------------------
(* Step 1: init                                                            *)

Step1Init ==
    /\ pc = "init"
    /\ grid' = NewGrid(cfg)
    /\ pc' = "surface"
    /\ NoDraw
    /\ UNCHANGED <<cli, cfg, surface, surface_line, wx, wy, lastMove, br, ti, ci,
                   regions, ri, surface_set, link, entry, spawn, goal,
                   fault, prev, run, first>>

----------------------------------------------------------------------------
(* Step 2: surface                                                         *)

\* surface = np.zeros(w); y = rng.integers(y_min, y_max + 1)
Step2Begin ==
    /\ pc = "surface"
    /\ \E y0 \in Range(cfg.surface_y_min, cfg.surface_y_max + 1) :
          /\ wy' = y0
          /\ Draw(<<y0>>)
    /\ wx' = 0
    /\ surface' = [x \in Range(0, W) |-> 0]
    /\ pc' = "surface_loop"
    /\ UNCHANGED <<cli, cfg, grid, surface_line, lastMove, br, ti, ci, regions, ri,
                   surface_set, link, entry, spawn, goal, fault, prev, run,
                   first>>

\* one iteration of `for x in range(w)`
Step2Column ==
    /\ pc = "surface_loop"
    /\ wx < W
    /\ \E dy \in Range(-cfg.surface_step_max, cfg.surface_step_max + 1) :
          LET y == Clip(wy + dy, cfg.surface_y_min, cfg.surface_y_max) IN
          /\ wy' = y
          /\ surface' = [surface EXCEPT ![wx] = y]
          /\ grid' = SetCells(grid, {<<wx, r>> : r \in Range(0, SliceEnd(y, H))}, T_AIR)
          /\ Draw(<<dy>>)
    /\ wx' = wx + 1
    /\ UNCHANGED <<cli, cfg, pc, surface_line, lastMove, br, ti, ci, regions, ri,
                   surface_set, link, entry, spawn, goal, fault, prev, run,
                   first>>

\* self.surface_line = surface
Step2End ==
    /\ pc = "surface_loop"
    /\ wx = W
    /\ surface_line' = surface
    /\ pc' = "tunnels"
    /\ wx' = 0 /\ wy' = 0
    /\ NoDraw
    /\ UNCHANGED <<cli, cfg, grid, surface, lastMove, br, ti, ci, regions, ri,
                   surface_set, link, entry, spawn, goal, fault, prev, run,
                   first>>

----------------------------------------------------------------------------
(* Step 3: tunnels                                                         *)

\* np.linspace(w * 0.1, w * 0.9, n, dtype=int)[i]: n evenly spaced reals
\* from w/10 to 9w/10, truncated
StartX(i) ==
    IF cfg.num_tunnels = 1 THEN W \div 10
    ELSE (W * (cfg.num_tunnels - 1) + 8 * W * i) \div (10 * (cfg.num_tunnels - 1))

\* a cross-section of a single row
CrossSectionThin(x, y) == {<<x + dx, y>> : dx \in (-Half)..Half}

\* the cells of a cross-section at (x, y); those outside the grid are skipped
CrossSection(x, y) ==
    {<<x + dx, y + dy>> : dx \in (-Half)..Half,
                          dy \in Range(0, cfg.tunnel_vertical_clearance)}

\* a lateral move that is not clamped
NoClampX(v) == v

\* max(half, min(v, w - 1 - half))
ClampX(v) == Max(Half, Min(v, W - 1 - Half))

\* the column after the draw `direction`
MoveX(x, dir) ==
    CASE dir = "left"  -> ClampX(x - 1)
      [] dir = "right" -> ClampX(x + 1)
      [] OTHER         -> x

\* the row when a draw below 0.6 does not move the walk down
MoveYNoDescent(y, dir, extra) == y + (IF extra THEN 1 ELSE 0)

\* the row after the draw `direction` and the draw of the extra step
MoveY(y, dir, extra) ==
    y + (IF dir = "down" THEN 1 ELSE 0) + (IF extra THEN 1 ELSE 0)

\* outcomes of `rng.random() < chance` for a chance given in percent
Chance(pct) == {b \in BOOLEAN : (b => pct > 0) /\ (~b => pct < 100)}

\* _step3_tunnels: `for sx in start_xs`, entering _carve_tunnel
TunnelStart ==
    /\ pc = "tunnels"
    /\ ti < cfg.num_tunnels
    /\ wx' = StartX(ti)
    /\ wy' = surface_line[StartX(ti)]
    /\ pc' = "walk"
    /\ NoDraw
    /\ UNCHANGED <<cli, cfg, grid, surface, surface_line, lastMove, br, ti, ci,
                   regions, ri, surface_set, link, entry, spawn, goal,
                   fault, prev, run, first>>

\* one iteration of `while y < max_depth`
TunnelStep ==
    /\ pc = "walk"
    /\ wy < H - TunnelFloorMargin
    /\ grid' = SetCells(grid, CrossSection(wx, wy), T_AIR)
    /\ \E dir \in {"down", "left", "right"}, extra \in BOOLEAN,
          b \in Chance(cfg.tunnel_branch_pct) :
          LET x2 == MoveX(wx, dir)
              y2 == MoveY(wy, dir, extra)
          IN  /\ wx' = x2
              /\ wy' = y2
              /\ lastMove' = [dir |-> dir, extra |-> extra]
              /\ IF b /\ y2 < H - BranchFloorMargin
                 THEN \E len \in Range(BranchLenMin, BranchLenEnd), d \in {-1, 1} :
                         /\ br' = [x |-> x2, y |-> y2, dir |-> d, left |-> len]
                         /\ pc' = "branch"
                         /\ Draw(<<dir, extra, b, len, d>>)
                 ELSE /\ br' = br
                      /\ pc' = pc
                      /\ Draw(<<dir, extra, b>>)
    /\ UNCHANGED <<cli, cfg, surface, surface_line, ti, ci, regions, ri,
                   surface_set, link, entry, spawn, goal, fault, prev, run,
                   first>>

\* one iteration of `for _ in range(branch_len)`
BranchStep ==
    /\ pc = "branch"
    /\ grid' = SetCells(grid, CrossSection(br.x, br.y), T_AIR)
    /\ \E down \in BOOLEAN :
          LET by == br.y + (IF down THEN 1 ELSE 0)
              bx == ClampX(br.x + br.dir)
              left == IF by >= H - BranchStopMargin THEN 0 ELSE br.left - 1
          IN  /\ br' = IF left = 0 THEN NoBranch
                       ELSE [x |-> bx, y |-> by, dir |-> br.dir, left |-> left]
              /\ pc' = IF left = 0 THEN "walk" ELSE "branch"
              /\ Draw(<<down>>)
    /\ UNCHANGED <<cli, cfg, surface, surface_line, wx, wy, lastMove, ti, ci,
                   regions, ri, surface_set, link, entry, spawn, goal,
                   fault, prev, run, first>>

\* the walk's loop condition fails: _carve_tunnel returns
TunnelReturn ==
    /\ pc = "walk"
    /\ wy >= H - TunnelFloorMargin
    /\ ti' = ti + 1
    /\ pc' = "tunnels"
    /\ wx' = 0 /\ wy' = 0
    /\ lastMove' = NoMove
    /\ NoDraw
    /\ UNCHANGED <<cli, cfg, grid, surface, surface_line, br, ci, regions, ri,
                   surface_set, link, entry, spawn, goal, fault, prev, run,
                   first>>

\* start_xs is exhausted: _step3_tunnels returns
Step3End ==
    /\ pc = "tunnels"
    /\ ti = cfg.num_tunnels
    /\ pc' = "caves"
    /\ NoDraw
    /\ UNCHANGED <<cli, cfg, grid, surface, surface_line, wx, wy, lastMove, br,
                   ti, ci, regions, ri, surface_set, link, entry, spawn,
                   goal, fault, prev, run, first>>

----------------------------------------------------------------------------
(* Step 4: caves                                                           *)

RECURSIVE SeqMax(_, _)
\* max of f[0..n-1]
SeqMax(f, n) == IF n = 1 THEN f[0] ELSE Max(f[n - 1], SeqMax(f, n - 1))


\* int(self.surface_line.max())
SurfaceMax == SeqMax(surface_line, W)

\* surface_max = int(self.surface_line.max()) + 10
CaveTop == SurfaceMax + CaveSurfaceMargin

\* rng.integers(r_max + 2, w - r_max - 2): the outcomes of cx
CaveXs == Range(cfg.cave_radius_max + CaveBoxMargin,
                W - cfg.cave_radius_max - CaveBoxMargin)

\* rng.integers(surface_max, h - r_max - 2): the outcomes of cy
CaveYs == Range(CaveTop, H - cfg.cave_radius_max - CaveBoxMargin)

\* base_r = clamp(r_min + (r_max - r_min) * depth_ratio) as the fraction
\* CaveBaseNum(cy) / CaveBaseDen
CaveBaseDen == Max(1, H - CaveTop - cfg.cave_radius_max)

CaveBaseNum(cy) ==
    Clip(cfg.cave_radius_min * CaveBaseDen
             + (cfg.cave_radius_max - cfg.cave_radius_min) * (cy - CaveTop),
         cfg.cave_radius_min * CaveBaseDen,
         cfg.cave_radius_max * CaveBaseDen)

\* the cells of the two loops over the bounding box of a cave
CaveBox(cx, cy) ==
    {<<x, y>> : x \in Range(Max(0, cx - cfg.cave_radius_max - CaveBoxMargin),
                            Min(W, cx + cfg.cave_radius_max + CaveBoxMargin)),
                y \in Range(Max(0, cy - cfg.cave_radius_max - CaveBoxMargin),
                            Min(H, cy + cfg.cave_radius_max + CaveBoxMargin))}

Dist2(c, cx, cy) == (c[1] - cx) * (c[1] - cx) + (c[2] - cy) * (c[2] - cy)

\* dx*dx + dy*dy < r*r for every radius r the noise can give at the cell's
\* angle: r >= base_r * (1 - noise)
CaveSure(cx, cy) ==
    {c \in CaveBox(cx, cy) :
        Dist2(c, cx, cy) * CaveBaseDen * CaveBaseDen * 100 * 100
          < CaveBaseNum(cy) * CaveBaseNum(cy)
              * (100 - cfg.cave_noise_pct) * (100 - cfg.cave_noise_pct)}

\* dx*dx + dy*dy < r*r for some radius r the noise can give:
\* r < base_r * (1 + noise)
CaveMaybe(cx, cy) ==
    {c \in CaveBox(cx, cy) :
        Dist2(c, cx, cy) * CaveBaseDen * CaveBaseDen * 100 * 100
          < CaveBaseNum(cy) * CaveBaseNum(cy)
              * (100 + cfg.cave_noise_pct) * (100 + cfg.cave_noise_pct)}
    \ CaveSure(cx, cy)

\* c lies on the ray from the centre through d, nearer to the centre
Nearer(c, d, cx, cy) ==
    /\ (c[1] - cx) * (d[2] - cy) = (c[2] - cy) * (d[1] - cx)
    /\ (c[1] - cx) * (d[1] - cx) + (c[2] - cy) * (d[2] - cy) > 0
    /\ Dist2(c, cx, cy) < Dist2(d, cx, cy)

\* The shapes the 36 noisy radii can give: every sure cell, and of the
\* cells in the noise band those the radius at their angle reaches, one
\* radius per ray.  With the radii of the modelled configurations the band
\* cells lie at the angles 0, 90, 180 and 270 degrees, which are the samples
\* 0, 9, 18 and 27 themselves, drawn independently.
CaveShapes(cx, cy) ==
    LET sure == CaveSure(cx, cy)
        band == CaveMaybe(cx, cy)
    IN  {sure \cup M : M \in
            {M \in SUBSET band :
                \A d \in M : \A c \in band :
                    Nearer(c, d, cx, cy) => c \in M}}

\* one iteration of `for _ in range(n)`; rng.integers(low, high) raises
\* ValueError when low >= high
Step4Cave ==
    /\ pc = "caves"
    /\ ci < cfg.num_caves
    /\ IF CaveXs = {} \/ CaveYs = {}
       THEN /\ fault' = "ValueError"
            /\ pc' = "fault"
            /\ NoDraw
            /\ UNCHANGED <<grid, ci>>
       ELSE /\ \E cx \in CaveXs, cy \in CaveYs :
                  \E shape \in CaveShapes(cx, cy) :
                     /\ grid' = SetCells(grid, shape, T_AIR)
                     /\ Draw(<<cx, cy, shape>>)
            /\ ci' = ci + 1
            /\ UNCHANGED <<pc, fault>>
    /\ UNCHANGED <<cli, cfg, surface, surface_line, wx, wy, lastMove, br, ti,
                   regions, ri, surface_set, link, entry, spawn, goal,
                   prev, run, first>>

Step4End ==
    /\ pc = "caves"
    /\ ci = cfg.num_caves
    /\ pc' = "filter"
    /\ NoDraw
    /\ UNCHANGED <<cli, cfg, grid, surface, surface_line, wx, wy, lastMove, br,
                   ti, ci, regions, ri, surface_set, link, entry, spawn,
                   goal, fault, prev, run, first>>

----------------------------------------------------------------------------
(* Step 5: filter small regions                                            *)

\* ((x - 1, y), (x + 1, y), (x, y - 1), (x, y + 1))
Neighbours(c) ==
    {<<c[1] - 1, c[2]>>, <<c[1] + 1, c[2]>>, <<c[1], c[2] - 1>>, <<c[1], c[2] + 1>>}

RECURSIVE Flood(_, _, _, _)
\* the BFS loop: `frontier` is the queue, `seen` the visited cells, `open`
\* the tile kinds the flood passes through
Flood(g, open, frontier, seen) ==
    LET new == {n \in UNION {Neighbours(c) : c \in frontier} :
                   /\ InGrid(n[1], n[2])
                   /\ n \notin seen
                   /\ g[n[2]][n[1]] \in open}
    IN  IF new = {} THEN seen ELSE Flood(g, open, new, seen \cup new)

\* _bfs_flood(sx, sy, visited): the cells of the returned region
BfsFlood(g, sx, sy, visited) ==
    Flood(g, {T_AIR}, {<<sx, sy>>}, visited \cup {<<sx, sy>>}) \ visited

\* the k-th cell of `for y in range(h): for x in range(w)`
ScanCell(k) == <<k % W, k \div W>>

\* the first position from k on at which the scan meets an unvisited
\* T_AIR cell (W * H when it meets none)
NextSeed(g, visited, k) ==
    LET seeds == {j \in Range(k, W * H) :
                     /\ g[ScanCell(j)[2]][ScanCell(j)[1]] = T_AIR
                     /\ ScanCell(j) \notin visited}
    IN  IF seeds = {} THEN W * H
        ELSE CHOOSE j \in seeds : \A i \in seeds : j <= i

\* the size test with `<=` in place of `<`
TooSmallOrEqual(region) == Cardinality(region) <= cfg.min_region_size

\* if len(region) < self.cfg.min_region_size
TooSmall(region) == Cardinality(region) < cfg.min_region_size

RECURSIVE FilterScan(_, _, _)
\* _step5_filter from scan position k on
FilterScan(g, visited, k) ==
    LET j == NextSeed(g, visited, k) IN
    IF j = W * H THEN g
    ELSE LET c == ScanCell(j)
             region == BfsFlood(g, c[1], c[2], visited)
         IN  FilterScan(IF TooSmall(region)
                           THEN SetCells(g, region, T_FILL) ELSE g,
                        visited \cup region, j + 1)

Step5Filter ==
    /\ pc = "filter"
    /\ grid' = FilterScan(grid, {}, 0)
    /\ prev' = grid
    /\ pc' = "connect"
    /\ NoDraw
    /\ UNCHANGED <<cli, cfg, surface, surface_line, wx, wy, lastMove, br, ti, ci,
                   regions, ri, surface_set, link, entry, spawn, goal,
                   fault, run, first>>

----------------------------------------------------------------------------
(* Step 6: connect                                                         *)

RECURSIVE RegionScan(_, _, _, _)
\* _find_air_regions from scan position k on: the regions in the order found
RegionScan(g, visited, k, found) ==
    LET j == NextSeed(g, visited, k) IN
    IF j = W * H THEN found
    ELSE LET c == ScanCell(j)
             region == BfsFlood(g, c[1], c[2], visited)
         IN  RegionScan(g, visited \cup region, j + 1, Append(found, region))

FindAirRegions(g) == RegionScan(g, {}, 0, <<>>)

\* surface_region_idx: the first region holding a cell of the smallest row
\* (indices from 1)
SurfaceRegionIdx(rs) ==
    LET minY(r) == CHOOSE y \in {c[2] : c \in r} : \A c \in r : y <= c[2]
        top == CHOOSE y \in {minY(rs[i]) : i \in 1..Len(rs)} :
                  \A i \in 1..Len(rs) : y <= minY(rs[i])
    IN  CHOOSE i \in 1..Len(rs) :
           /\ minY(rs[i]) = top
           /\ \A j \in 1..(i - 1) : minY(rs[j]) # top

RECURSIVE KSubsets(_, _)
\* the subsets of S with k elements: rng.choice(len, k, replace=False)
KSubsets(S, k) ==
    IF k = 0 THEN {{}}
    ELSE IF S = {} THEN {}
    ELSE LET x == CHOOSE x \in S : TRUE IN
         KSubsets(S \ {x}, k) \cup {T \cup {x} : T \in KSubsets(S \ {x}, k - 1)}

\* abs(ax - bx) + abs(ay - by)
Manhattan(a, b) == Abs(a[1] - b[1]) + Abs(a[2] - b[2])

\* the pairs of smallest distance between the samples Sa and Sb
ClosestPairs(Sa, Sb) ==
    {p \in Sa \X Sb :
        \A q \in Sa \X Sb : Manhattan(p[1], p[2]) <= Manhattan(q[1], q[2])}

\* The pairs (best_a, best_b) the sampled search can end with: a pair of
\* smallest distance among the sampled cells; the order of the samples
\* decides which of several such pairs is met first.
BestPairs(region, sset) ==
    LET SA == KSubsets(region, Min(SampleCap, Cardinality(region)))
        SB == KSubsets(sset, Min(SampleCap, Cardinality(sset)))
    IN  UNION {ClosestPairs(Sa, Sb) : Sa \in SA, Sb \in SB}

\* the cells of the horizontal leg
HorizontalLeg(a, b) ==
    {<<x, a[2] + dy>> : x \in Range(Min(a[1], b[1]), Max(a[1], b[1]) + 1),
                        dy \in (-Half)..Half}

\* the vertical leg carved in the source cell's column
VerticalLegAtSource(a, b) ==
    {<<a[1] + dx, y>> : dx \in (-Half)..Half,
                        y \in Range(Min(a[2], b[2]), Max(a[2], b[2]) + 1)}

\* the cells of the vertical leg
VerticalLeg(a, b) ==
    {<<b[1] + dx, y>> : dx \in (-Half)..Half,
                        y \in Range(Min(a[2], b[2]), Max(a[2], b[2]) + 1)}

\* _carve_l_tunnel without its vertical leg
CarveHorizontalOnly(g, a, b) == SetCells(g, HorizontalLeg(a, b), T_AIR)

\* _carve_l_tunnel(a, b)
CarveLTunnel(g, a, b) ==
    SetCells(g, HorizontalLeg(a, b) \cup VerticalLeg(a, b), T_AIR)

\* regions = self._find_air_regions(); return if len(regions) <= 1
ConnectBegin ==
    /\ pc = "connect"
    /\ LET rs == FindAirRegions(grid) IN
       IF Len(rs) <= 1
       THEN /\ pc' = "entry"
            /\ UNCHANGED <<regions, ri, surface_set>>
       ELSE /\ pc' = "connect_loop"
            /\ regions' = rs
            /\ ri' = 1
            /\ surface_set' = rs[SurfaceRegionIdx(rs)]
    /\ prev' = grid
    /\ NoDraw
    /\ UNCHANGED <<cli, cfg, grid, surface, surface_line, wx, wy, lastMove, br,
                   ti, ci, link, entry, spawn, goal, fault, run, first>>

\* `if i == surface_region_idx: continue`
ConnectSkip ==
    /\ pc = "connect_loop"
    /\ ri <= Len(regions)
    /\ ri = SurfaceRegionIdx(regions)
    /\ ri' = ri + 1
    /\ NoDraw
    /\ UNCHANGED <<cli, cfg, pc, grid, surface, surface_line, wx, wy, lastMove,
                   br, ti, ci, regions, surface_set, link, entry, spawn,
                   goal, fault, prev, run, first>>

\* one iteration of the loop over the non-surface regions
ConnectRegion ==
    /\ pc = "connect_loop"
    /\ ri <= Len(regions)
    /\ ri # SurfaceRegionIdx(regions)
    /\ \E p \in BestPairs(regions[ri], surface_set) :
          /\ grid' = CarveLTunnel(grid, p[1], p[2])
          /\ link' = p
          /\ Draw(<<p>>)
    /\ surface_set' = surface_set \cup regions[ri]
    /\ ri' = ri + 1
    /\ UNCHANGED <<cli, cfg, pc, surface, surface_line, wx, wy, lastMove, br, ti,
                   ci, regions, entry, spawn, goal, fault, prev, run, first>>

ConnectEnd ==
    /\ pc = "connect_loop"
    /\ ri > Len(regions)
    /\ pc' = "entry"
    /\ NoDraw
    /\ UNCHANGED <<cli, cfg, grid, surface, surface_line, wx, wy, lastMove, br,
                   ti, ci, regions, ri, surface_set, link, entry, spawn,
                   goal, fault, prev, run, first>>

----------------------------------------------------------------------------
(* Step 7: surface entry check                                             *)

\* underground_start = int(self.surface_line.max()) + 2
UndergroundStart == SurfaceMax + UndergroundMargin

\* `connected` for column x: only T_AIR from the surface row down to
\* min(underground_start + 5, h) - 1
EntryColumn(g, x) ==
    \A y \in Range(surface_line[x], Min(UndergroundStart + EntryCheckDepth, H)) :
        g[y][x] = T_AIR

\* the shaft begun one row below the centre column's surface row
EntryShaftBelowSurface ==
    {<<W \div 2 + dx, y>> :
        dx \in (-Half)..Half,
        y \in Range(surface_line[W \div 2] + 1,
                    Min(UndergroundStart + EntryCarveDepth, H))}

\* a shaft one column wider on either side
EntryShaftWide ==
    {<<W \div 2 + dx, y>> :
        dx \in (-Half - 1)..(Half + 1),
        y \in Range(surface_line[W \div 2],
                    Min(UndergroundStart + EntryCarveDepth, H))}

\* the shaft carved at the centre column when no column is connected
EntryShaft ==
    {<<W \div 2 + dx, y>> :
        dx \in (-Half)..Half,
        y \in Range(surface_line[W \div 2],
                    Min(UndergroundStart + EntryCarveDepth, H))}

Step7EntryCheck ==
    /\ pc = "entry"
    /\ IF \E x \in Range(0, W) : EntryColumn(grid, x)
       THEN /\ entry' = "found"
            /\ grid' = grid
       ELSE /\ entry' = "carved"
            /\ grid' = SetCells(grid, EntryShaft, T_AIR)
    /\ prev' = grid
    /\ pc' = "spawn_goal"
    /\ NoDraw
    /\ UNCHANGED <<cli, cfg, surface, surface_line, wx, wy, lastMove, br, ti, ci,
                   regions, ri, surface_set, link, spawn, goal, fault, run,
                   first>>

----------------------------------------------------------------------------
(* Step 8: spawn and goal                                                  *)

\* range(max(5, center_x - w // 4), min(w - 5, center_x + w // 4))
SpawnColumns ==
    Range(Max(SpawnEdgeMargin, W \div 2 - W \div 4),
          Min(W - SpawnEdgeMargin, W \div 2 + W \div 4))

\* window = surface_line[max(0, x - 2):x + 3]; window.max() - window.min()
Flatness(x) ==
    LET window == Range(Max(0, x - SpawnWindowHalf), Min(x + SpawnWindowHalf + 1, W))
        hi == CHOOSE v \in {surface_line[i] : i \in window} :
                 \A i \in window : surface_line[i] <= v
        lo == CHOOSE v \in {surface_line[i] : i \in window} :
                 \A i \in window : surface_line[i] >= v
    IN  hi - lo

\* a spawn score that ignores the flatness of the window
SpawnScoreDistOnly(x) == Abs(x - W \div 2)

\* score = flatness * 10 + dist
SpawnScore(x) == Flatness(x) * FlatnessWeight + Abs(x - W \div 2)

\* spawn_x: the first column of the smallest score, center_x without columns
SpawnX ==
    IF SpawnColumns = {} THEN W \div 2
    ELSE CHOOSE x \in SpawnColumns :
            /\ \A z \in SpawnColumns : SpawnScore(x) <= SpawnScore(z)
            /\ \A z \in SpawnColumns : z < x => SpawnScore(z) > SpawnScore(x)

\* spawn_y without the `- 1`: the spawn in the surface row itself
SpawnYOnSurface(x) == surface_line[x]

\* spawn_y = int(self.surface_line[spawn_x]) - 1
SpawnY(x) == surface_line[x] - 1

\* the row numpy addresses with index i on an axis of n rows: a negative
\* index counts from the end; -1 stands for IndexError
NumpyRow(i, n) ==
    IF 0 <= i /\ i < n THEN i
    ELSE IF -n <= i /\ i < 0 THEN i + n
    ELSE -1

\* the goal score with the depth counted against the cell
GoalScoreShallow(c, sx, sy) ==
    Abs(c[1] - sx) + Abs(c[2] - sy) - c[2] * DepthWeight

\* the goal score without the depth term
GoalScoreNoDepth(c, sx, sy) == Abs(c[1] - sx) + Abs(c[2] - sy)

\* score = depth * 2 + dist
GoalScore(c, sx, sy) == c[2] * DepthWeight + Abs(c[1] - sx) + Abs(c[2] - sy)

\* a scan that runs the columns of a row from right to left
GoalScanRightToLeft(c, d) == c[2] > d[2] \/ (c[2] = d[2] /\ c[1] > d[1])

\* c comes before d in `for y in range(h - 1, -1, -1): for x in range(w)`
GoalScanBefore(c, d) == c[2] > d[2] \/ (c[2] = d[2] /\ c[1] < d[1])

AirCells(g) == {c \in Range(0, W) \X Range(0, H) : g[c[2]][c[1]] = T_AIR}

\* best_goal: `score > best_goal_score` keeps the first cell of the largest
\* score the scan meets; <<>> stands for None
BestGoal(g, sx, sy) ==
    IF AirCells(g) = {} THEN <<>>
    ELSE CHOOSE c \in AirCells(g) :
            /\ \A d \in AirCells(g) : GoalScore(d, sx, sy) <= GoalScore(c, sx, sy)
            /\ \A d \in AirCells(g) :
                  GoalScanBefore(d, c) => GoalScore(d, sx, sy) < GoalScore(c, sx, sy)

Step8SpawnGoal ==
    /\ pc = "spawn_goal"
    /\ LET sx == SpawnX
           sy == SpawnY(sx)
           row == NumpyRow(sy, H)
       IN  IF row = -1
           THEN /\ fault' = "IndexError"
                /\ pc' = "fault"
                /\ UNCHANGED <<grid, spawn, goal>>
           ELSE LET g1 == SetCells(grid, {<<sx, row>>}, T_SPAWN)
                    best == BestGoal(g1, sx, sy)
                IN  /\ spawn' = <<sx, sy>>
                    /\ goal' = best
                    /\ grid' = IF best = <<>> THEN g1
                               ELSE SetCells(g1, {best}, T_GOAL)
                    /\ pc' = "top"
                    /\ fault' = fault
    /\ prev' = grid
    /\ NoDraw
    /\ UNCHANGED <<cli, cfg, surface, surface_line, wx, wy, lastMove, br, ti, ci,
                   regions, ri, surface_set, link, entry, run, first>>

----------------------------------------------------------------------------
(* Step 9: T_TOP detection                                                 *)

\* top detection that looks at the row below instead of the row above
TopDetectionBelow(g) ==
    [y \in Range(0, H) |-> [x \in Range(0, W) |->
        IF y + 1 < H /\ g[y + 1][x] = T_AIR /\ g[y][x] = T_FILL
        THEN T_TOP ELSE g[y][x]]]

\* top detection that takes a T_TOP cell above for open as well
TopDetectionUnderOpen(g) ==
    [y \in Range(0, H) |-> [x \in Range(0, W) |->
        IF y >= 1 /\ g[y - 1][x] \in {T_AIR, T_TOP} /\ g[y][x] = T_FILL
        THEN T_TOP ELSE g[y][x]]]

\* top detection that writes T_TOP into the row of the air cell
TopDetectionOnAir(g) ==
    [y \in Range(0, H) |-> [x \in Range(0, W) |->
        IF y + 1 < H /\ g[y][x] = T_AIR /\ g[y + 1][x] = T_FILL
        THEN T_TOP ELSE g[y][x]]]

\* mask = (grid[:-1] == T_AIR) & (grid[1:] == T_FILL);
\* grid[1:] = where(mask, T_TOP, grid[1:])
TopDetection(g) ==
    [y \in Range(0, H) |-> [x \in Range(0, W) |->
        IF y >= 1 /\ g[y - 1][x] = T_AIR /\ g[y][x] = T_FILL
        THEN T_TOP ELSE g[y][x]]]

Step9TopDetection ==
    /\ pc = "top"
    /\ grid' = TopDetection(grid)
    /\ prev' = grid
    /\ pc' = "done"
    /\ NoDraw
    /\ UNCHANGED <<cli, cfg, surface, surface_line, wx, wy, lastMove, br, ti, ci,
                   regions, ri, surface_set, link, entry, spawn, goal,
                   fault, run, first>>

\* _step9_top_detection called again on the grid it has processed; `first`
\* keeps the grid the second call started from
Step9Again ==
    /\ pc = "done"
    /\ grid' = TopDetection(grid)
    /\ first' = grid
    /\ pc' = "done_again"
    /\ NoDraw
    /\ UNCHANGED <<cli, cfg, surface, surface_line, wx, wy, lastMove, br, ti, ci,
                   regions, ri, surface_set, link, entry, spawn, goal,
                   fault, prev, run>>

----------------------------------------------------------------------------
(* verify_blueprint                                                        *)

\* air_mask = np.isin(grid, [T_AIR, T_TOP, T_SPAWN, T_GOAL])
OpenKinds == {T_AIR, T_TOP, T_SPAWN, T_GOAL}

RECURSIVE CountRegions(_, _, _, _)
\* rule 1 from scan position k on: region_count
CountRegions(g, visited, k, n) ==
    LET seeds == {j \in Range(k, W * H) :
                     /\ g[ScanCell(j)[2]][ScanCell(j)[1]] \in OpenKinds
                     /\ ScanCell(j) \notin visited}
    IN  IF seeds = {} THEN n
        ELSE LET j == CHOOSE j \in seeds : \A i \in seeds : j <= i
                 c == ScanCell(j)
             IN  CountRegions(g, Flood(g, OpenKinds, {c}, visited \cup {c}),
                              j + 1, n + 1)

VerifyRegionCount(g) == CountRegions(g, {}, 0, 0)

\* np.argwhere(grid == kind), as cells <<x, y>>
Positions(g, kind) == {c \in Range(0, W) \X Range(0, H) : g[c[2]][c[1]] = kind}

\* rule 2: exactly one spawn, within 2 rows of surface_line[sx] - 1
VerifySpawn(g, sl) ==
    /\ Cardinality(Positions(g, T_SPAWN)) = 1
    /\ \A c \in Positions(g, T_SPAWN) : Abs(c[2] - (sl[c[1]] - 1)) <= 2

\* goal_positions[0]: the first goal in row-major order
FirstGoal(g) ==
    CHOOSE c \in Positions(g, T_GOAL) :
        \A d \in Positions(g, T_GOAL) :
            c[2] < d[2] \/ (c[2] = d[2] /\ c[1] <= d[1])

\* min_goal_depth = surface_max + (h - surface_max) // 3
MinGoalDepth(sl) == SeqMax(sl, W) + (H - SeqMax(sl, W)) \div 3

\* rule 3: a goal exists and the first one is deep enough
VerifyGoal(g, sl) ==
    /\ Positions(g, T_GOAL) # {}
    /\ FirstGoal(g)[2] >= MinGoalDepth(sl)

\* rule 4: no T_TOP in rows 1..h-1 with anything but T_AIR, T_SPAWN or
\* T_GOAL above it
VerifyTop(g) ==
    \A c \in Positions(g, T_TOP) :
        c[2] >= 1 => g[c[2] - 1][c[1]] \in {T_AIR, T_SPAWN, T_GOAL}

\* the kinds rule 4 accepts above a T_TOP cell
AboveKinds == {T_AIR, T_SPAWN, T_GOAL}

\* rule 4 without its two `break`s: every offending cell is reported
RECURSIVE TopScanAll(_, _, _)
TopScanAll(g, x, y) ==
    IF y >= H THEN <<>>
    ELSE IF x >= W THEN TopScanAll(g, 0, y + 1)
    ELSE IF g[y][x] = T_TOP /\ g[y - 1][x] \notin AboveKinds
         THEN <<[x |-> x, y |-> y, above |-> g[y - 1][x]]>>
                  \o TopScanAll(g, x + 1, y)
    ELSE TopScanAll(g, x + 1, y)

\* rule 4 as the loops run it, from column x of row y on: the failures it
\* appends.  The inner `break` leaves the row at the first offending cell,
\* the outer `break` then leaves the scan.
RECURSIVE TopScan(_, _, _)
TopScan(g, x, y) ==
    IF y >= H THEN <<>>
    ELSE IF x >= W THEN TopScan(g, 0, y + 1)
    ELSE IF g[y][x] = T_TOP /\ g[y - 1][x] \notin AboveKinds
         THEN <<[x |-> x, y |-> y, above |-> g[y - 1][x]]>>
    ELSE TopScan(g, x + 1, y)

\* `for y in range(1, h)`: the scan starts in row 1
VerifyTopFailures(g) == TopScan(g, 0, 1)

\* rule 5 looking at the second and third cell above only
ClearanceFailsFromTwo(g) ==
    {c \in Positions(g, T_TOP) :
        \A dy \in 2..(ClearanceEnd - 1) :
            ~(c[2] - dy >= 0 /\ g[c[2] - dy][c[1]] \in OpenKinds)}

\* rule 5: the T_TOP cells with no T_AIR, T_SPAWN, T_GOAL or T_TOP cell
\* among the three cells above them
ClearanceFails(g) ==
    {c \in Positions(g, T_TOP) :
        \A dy \in 1..(ClearanceEnd - 1) :
            ~(c[2] - dy >= 0 /\ g[c[2] - dy][c[1]] \in OpenKinds)}

\* rule 5 for a grid of at most 50 T_TOP cells, all of which rng.choice
\* then samples: passes unless more than a tenth of them fail
VerifyClearance(g) ==
    LET size == Min(ClearanceSampleCap, Cardinality(Positions(g, T_TOP)))
    IN  ~(Cardinality(ClearanceFails(g)) * ClearanceTenth > size)

\* verify_blueprint(grid, surface_line): the rules that append a failure
VerifyFailures(g, sl) ==
    (IF VerifyRegionCount(g) # 1 THEN {"regions"} ELSE {})
    \cup (IF VerifySpawn(g, sl) THEN {} ELSE {"spawn"})
    \cup (IF VerifyGoal(g, sl) THEN {} ELSE {"goal"})
    \cup (IF VerifyTop(g) THEN {} ELSE {"top"})
    \cup (IF VerifyClearance(g) THEN {} ELSE {"clearance"})

----------------------------------------------------------------------------
(* main()                                                                  *)

\* a generator that is handed the stream the generator before it read
StreamOfLast(seed) == tape

\* np.random.default_rng(seed): the stream of the seed, as far as a
\* generator of this seed has read it (cli.streams, place seed + 1)
StreamOf(seed) ==
    IF seed + 1 <= Len(cli.streams) THEN cli.streams[seed + 1] ELSE <<>>

\* gen = BlueprintGenerator(cfg): the fields of a new generator
NewGenerator ==
    /\ pc' = "init"
    /\ grid' = NewGrid(cfg)
    /\ surface' = <<>>
    /\ surface_line' = <<>>
    /\ wx' = 0 /\ wy' = 0
    /\ lastMove' = NoMove
    /\ br' = NoBranch
    /\ ti' = 0 /\ ci' = 0
    /\ regions' = <<>> /\ ri' = 0 /\ surface_set' = {}
    /\ link' = <<>>
    /\ entry' = "none"
    /\ spawn' = <<>> /\ goal' = <<>>
    /\ prev' = NewGrid(cfg)
    /\ tape' = StreamOf(cli.seed)
    /\ pos' = SeededPos
    /\ UNCHANGED <<cfg, fault, run, first>>

\* the fuzz loop given up at the first failing seed
FuzzStopOnFail(seed, failures) == IF failures # {} THEN cli.n ELSE seed + 1

\* `for seed in range(args.fuzz)`: the seed after `seed`, whatever the
\* verifier returned for it
FuzzNext(seed, failures) == seed + 1

\* `return 1` / `return 0` after the fuzz loop
FuzzExitCode(failed_seeds) == IF failed_seeds # <<>> THEN 1 ELSE 0

\* an exit code that ignores the verifier's result
ExitCodeZero(failures) == 0

\* --verify: `return 1` when failures is not empty, else the final `return 0`
VerifyExitCode(failures) == IF failures # {} THEN 1 ELSE 0

\* the decimal digits, as the characters str() writes
Digit == <<"0", "1", "2", "3", "4", "5", "6", "7", "8", "9">>

\* str(grid[y, x]) of a tile value v >= 0: its decimal digits, as a
\* sequence of characters
RECURSIVE Str(_)
Str(v) ==
    IF v < 10 THEN <<Digit[v + 1]>>
    ELSE Str(v \div 10) \o <<Digit[(v % 10) + 1]>>

\* sep.join(parts)
RECURSIVE Join(_, _)
Join(sep, parts) ==
    IF parts = <<>> THEN <<>>
    ELSE IF Len(parts) = 1 THEN parts[1]
    ELSE parts[1] \o sep \o Join(sep, Tail(parts))

\* a row written with nothing between its values
CsvRowUnseparated(g, y) ==
    Join(<<>>, [x \in 1..W |-> Str(g[y][x - 1])])

\* ",".join(str(grid[y, x]) for x in range(w))
CsvRow(g, y) ==
    Join(<<",">>, [x \in 1..W |-> Str(g[y][x - 1])])

\* the rows y, y + 1, ..., h - 1 as export_csv writes them, each followed
\* by "\n"
RECURSIVE CsvFrom(_, _)
CsvFrom(g, y) ==
    IF y >= H THEN <<>>
    ELSE CsvRow(g, y) \o <<"\n">> \o CsvFrom(g, y + 1)

\* export_csv(grid, path): the text of the file
ExportCsv(g) == CsvFrom(g, 0)

\* the exports in the order main() writes them
ExportOrder == <<"png", "csv", "tmx">>

\* fuzz loop body, first half: cfg = BlueprintConfig(seed=seed, ...);
\* gen = BlueprintGenerator(cfg); generate() then runs
FuzzConstruct ==
    /\ pc = "main"
    /\ cli.mode = "fuzz"
    /\ cli.seed < cli.n
    /\ cli' = [cli EXCEPT !.built = Append(@, cli.seed)]
    /\ NewGenerator

\* fuzz loop body, second half: failures = verify_blueprint(...);
\* `if failures: failed_seeds.append(...)`
FuzzVerify ==
    /\ pc = "done"
    /\ cli.mode = "fuzz"
    /\ LET failures == VerifyFailures(grid, surface_line) IN
       cli' = [cli EXCEPT
                 !.verified = Append(@, [seed |-> cli.seed, failures |-> failures,
                                         top |-> VerifyTopFailures(grid),
                                         grid |-> grid,
                                         surface_line |-> surface_line]),
                 !.failed_seeds = IF failures # {} THEN Append(@, cli.seed) ELSE @,
                 !.streams = IF run = 0 THEN @ ELSE Append(@, tape),
                 !.seed = FuzzNext(cli.seed, failures)]
    /\ pc' = "main"
    /\ UNCHANGED <<cfg, grid, surface, surface_line, wx, wy, lastMove, br, ti,
                   ci, regions, ri, surface_set, link, entry, spawn, goal,
                   fault, prev, run, tape, pos, first>>

\* range(args.fuzz) is exhausted: main() returns
FuzzReturn ==
    /\ pc = "main"
    /\ cli.mode = "fuzz"
    /\ cli.seed >= cli.n
    /\ cli' = [cli EXCEPT !.exit = FuzzExitCode(cli.failed_seeds)]
    /\ pc' = "exit"
    /\ UNCHANGED <<cfg, grid, surface, surface_line, wx, wy, lastMove, br, ti,
                   ci, regions, ri, surface_set, link, entry, spawn, goal,
                   fault, prev, run, tape, pos, first>>

\* single-seed mode: gen = BlueprintGenerator(cfg); generate() then runs
SingleConstruct ==
    /\ pc = "main"
    /\ cli.mode = "single"
    /\ cli' = [cli EXCEPT !.built = Append(@, cli.seed)]
    /\ NewGenerator

\* export_png, export_csv, export_tmx, one call per step; cli.csv is the
\* text export_csv writes
Export ==
    /\ pc = "done"
    /\ cli.mode = "single"
    /\ Len(cli.files) < Len(ExportOrder)
    /\ cli' = [cli EXCEPT
                 !.files = Append(@, ExportOrder[Len(cli.files) + 1]),
                 !.csv = IF ExportOrder[Len(cli.files) + 1] = "csv"
                         THEN ExportCsv(grid) ELSE @]
    /\ pc' = IF Len(cli.files) + 1 = Len(ExportOrder) THEN "exported" ELSE pc
    /\ UNCHANGED <<cfg, grid, surface, surface_line, wx, wy, lastMove, br, ti,
                   ci, regions, ri, surface_set, link, entry, spawn, goal,
                   fault, prev, run, tape, pos, first>>

\* `if args.verify:` taken: verify_blueprint, then return 1 or fall
\* through to return 0
SingleVerify ==
    /\ pc = "exported"
    /\ cli.verify
    /\ LET failures == VerifyFailures(grid, surface_line) IN
       cli' = [cli EXCEPT
                 !.verified = Append(@, [seed |-> cli.seed, failures |-> failures,
                                         top |-> VerifyTopFailures(grid),
                                         grid |-> grid,
                                         surface_line |-> surface_line]),
                 !.exit = VerifyExitCode(failures)]
    /\ pc' = "exit"
    /\ UNCHANGED <<cfg, grid, surface, surface_line, wx, wy, lastMove, br, ti,
                   ci, regions, ri, surface_set, link, entry, spawn, goal,
                   fault, prev, run, tape, pos, first>>

\* `if args.verify:` not taken: return 0
SingleReturn ==
    /\ pc = "exported"
    /\ ~cli.verify
    /\ cli' = [cli EXCEPT !.exit = 0]
    /\ pc' = "exit"
    /\ UNCHANGED <<cfg, grid, surface, surface_line, wx, wy, lastMove, br, ti,
                   ci, regions, ri, surface_set, link, entry, spawn, goal,
                   fault, prev, run, tape, pos, first>>

----------------------------------------------------------------------------
(* Properties                                                              *)

Adjacent(c, d) == Abs(c[1] - d[1]) + Abs(c[2] - d[2]) = 1

RECURSIVE Reach(_, _, _)
\* R and the cells of S that steps between 4-adjacent cells of S reach
\* from the cells F of R
Reach(S, F, R) ==
    LET N == {c \in S \ R : \E d \in F : Adjacent(c, d)}
    IN  IF N = {} THEN R ELSE Reach(S, N, R \cup N)

\* the cells of S that steps between 4-adjacent cells of S reach from R
Closure(S, R) == Reach(S, R, R)

\* S is one 4-connected region (and holds a cell)
OneRegion(S) == S # {} /\ Closure(S, {CHOOSE c \in S : TRUE}) = S

CellsOf(g, kinds) == {c \in Range(0, W) \X Range(0, H) : g[c[2]][c[1]] \in kinds}

\* C1: when generate() has returned, the cells holding Air, Top, Spawn or
\* Goal form exactly one 4-connected region, and the verifier's region
\* count is 1
C1_SingleRegion ==
    pc = "done" =>
        /\ VerifyRegionCount(grid) = 1
        /\ OneRegion(CellsOf(grid, OpenKinds))

\* a finished run in which the connectivity step had a cut-off region to join
C1_Witness == pc = "done" /\ Len(regions) >= 2 /\ link # <<>>

C5_TopCorrect ==
    pc = "done" =>
        /\ VerifyTop(grid)
        /\ \A c \in Positions(grid, T_TOP) :
              c[2] >= 1 /\ grid[c[2] - 1][c[1]] \in {T_AIR, T_SPAWN, T_GOAL}

\* a finished run with a Top cell and a Fill cell left below the spawn
C5_Witness ==
    /\ pc = "done"
    /\ Positions(grid, T_TOP) # {}
    /\ \E c \in Positions(grid, T_SPAWN) :
          c[2] + 1 < H /\ grid[c[2] + 1][c[1]] = T_FILL

\* column x is open from its surface row to min(max(surface_line) + 7, h) - 1
ColumnOpen(g, x) ==
    \A y \in Range(surface_line[x], Min(SurfaceMax + 7, H)) :
        g[y][x] \in {T_AIR, T_SPAWN, T_GOAL}

\* C6: from the entry check on some column is open from its surface row to
\* row min(max(surface_line) + 7, h) - 1, and after a repair the centre
\* column is
C6_EntryReachable ==
    pc \in {"spawn_goal", "top", "done"} =>
        /\ \E x \in Range(0, W) : ColumnOpen(grid, x)
        /\ entry = "carved" => ColumnOpen(grid, W \div 2)

\* the state after an entry check that found no column and carved the shaft
C6_Witness ==
    /\ pc = "spawn_goal"
    /\ entry = "carved"
    /\ ~(\E x \in Range(0, W) : EntryColumn(prev, x))
    /\ ColumnOpen(grid, W \div 2)

\* C7: two generators constructed from one Config and seed, each running
\* generate() once, return identical grids and identical surface lines
C7_Determinism ==
    (run = 2 /\ pc = "done") =>
        /\ grid = first.grid
        /\ surface_line = first.surface_line

\* the second generator has returned after reading the stream of at least
\* nine draws to the place the first one read it to
C7_Witness ==
    /\ run = 2
    /\ pc = "done"
    /\ pos = Len(tape)
    /\ Len(tape) >= 9

\* the last iteration of a tunnel walk drew a sideways move and no extra
\* step, so it left the row y unchanged
LateralOnly ==
    /\ pc \in {"walk", "branch"}
    /\ lastMove.dir \in {"left", "right"}
    /\ ~lastMove.extra

\* _step3_tunnels has returned
TunnelsDone == pc = "caves"

\* C8 as stated: every tunnel walk finishes, whatever is drawn, so the
\* run goes on to the stages after the tunnels
C8_Terminates == <>TunnelsDone

\* C8: the tunnel stage returns unless from some point on every iteration
\* of a tunnel walk draws a sideways move and no extra step; no count of
\* iterations bounds the walk
C8_TerminatesUnlessLateral == <>TunnelsDone \/ <>[]LateralOnly

\* a walk above its depth limit whose last iteration left the row unchanged
C8_Witness ==
    /\ pc = "walk"
    /\ LateralOnly
    /\ wy < H - TunnelFloorMargin
    /\ wy > surface_line[StartX(ti)]

\* C9: for every configuration no stage raises, and a write addressed
\* outside the grid changes no cell: once the spawn has been written with a
\* row outside 0..h-1 the grid holds no Spawn cell
C9_NoFaults ==
    /\ fault = "none"
    /\ (spawn # <<>> /\ ~InGrid(spawn[1], spawn[2])) => Positions(grid, T_SPAWN) = {}

\* the maximal 4-connected region of T_AIR cells of g that holds c
AirRegionOf(g, c) == Closure(AirCells(g), {c})

\* C2: after _step6_connect the T_AIR cells of a grid that holds one form a
\* single 4-connected region; the row of the source cell between the two
\* columns and the column of the destination cell between the two rows of
\* the last link are T_AIR; a grid of at most one region is left unchanged
C2_ConnectMerges ==
    /\ pc = "entry" =>
          /\ AirCells(prev) # {} => OneRegion(AirCells(grid))
          /\ (\A c \in AirCells(prev) : AirRegionOf(prev, c) = AirCells(prev))
                => grid = prev
    /\ (pc \in {"connect_loop", "entry"} /\ link # <<>>) =>
          LET a == link[1]
              b == link[2]
          IN  /\ \A x \in Min(a[1], b[1])..Max(a[1], b[1]) : grid[a[2]][x] = T_AIR
              /\ \A y \in Min(a[2], b[2])..Max(a[2], b[2]) : grid[y][b[1]] = T_AIR

\* a connect step that joined two cut-off regions, the last one by a link
\* with a corner
C2_Witness ==
    /\ pc = "entry"
    /\ Len(regions) >= 3
    /\ link # <<>>
    /\ link[1][1] # link[2][1] /\ link[1][2] # link[2][2]

\* C10: after _step5_filter every maximal region of T_AIR cells has at
\* least min_region_size cells; a region that had fewer before is all
\* T_FILL, and the cells of the other regions and the cells that were not
\* T_AIR are unchanged
C10_FilterGuarantee ==
    pc = "connect" =>
        /\ \A c \in AirCells(grid) :
              Cardinality(AirRegionOf(grid, c)) >= cfg.min_region_size
        /\ \A c \in AirCells(prev) :
              IF Cardinality(AirRegionOf(prev, c)) < cfg.min_region_size
              THEN grid[c[2]][c[1]] = T_FILL
              ELSE grid[c[2]][c[1]] = T_AIR
        /\ \A c \in (Range(0, W) \X Range(0, H)) \ AirCells(prev) :
              grid[c[2]][c[1]] = prev[c[2]][c[1]]

\* a filtered grid that had a region below the size and one of exactly it
C10_Witness ==
    /\ pc = "connect"
    /\ \E c \in AirCells(prev) :
          Cardinality(AirRegionOf(prev, c)) < cfg.min_region_size
    /\ \E c \in AirCells(prev) :
          Cardinality(AirRegionOf(prev, c)) = cfg.min_region_size

\* C11: a second run of _step9_top_detection on the grid the first run
\* produced changes no cell, whatever grid the first run started from
C11_TopIdempotent == pc = "done_again" => grid = first

\* a second run after a first run that turned a T_FILL cell into T_TOP and
\* left a T_FILL cell below a T_TOP cell
C11_Witness ==
    /\ pc = "done_again"
    /\ prev # first
    /\ \E c \in Positions(first, T_TOP) :
          c[2] + 1 < H /\ first[c[2] + 1][c[1]] = T_FILL /\ prev[c[2]][c[1]] = T_FILL

\* the cells above the surface line
SkyCells == {c \in Range(0, W) \X Range(0, H) : c[2] < surface_line[c[1]]}

\* no tunnel, no cave, and min_region_size larger than the sky region
Degenerate ==
    /\ cfg.num_tunnels = 0
    /\ cfg.num_caves = 0
    /\ surface_line # <<>>
    /\ cfg.min_region_size > Cardinality(SkyCells)

\* C12 (first part): in the degenerate configuration the sky region
\* survives the region filter: from the filter on, every cell above the
\* surface line is open
C12_SkySurvives ==
    (Degenerate /\ pc \in {"connect", "connect_loop", "entry", "spawn_goal", "top", "done"}) =>
        \A c \in SkyCells : grid[c[2]][c[1]] \in {T_AIR, T_SPAWN, T_GOAL}

\* C12 (second part): in the degenerate configuration the entry check
\* leaves an open column and the final grid is a single open region
C12_EntryAndRegion ==
    /\ (Degenerate /\ pc \in {"spawn_goal", "top", "done"}) =>
          \E x \in Range(0, W) : ColumnOpen(grid, x)
    /\ (Degenerate /\ pc = "done") => VerifyRegionCount(grid) = 1

\* C13: with --fuzz N the harness constructs a fresh generator for, and
\* verifies, exactly the seeds 0, 1, ..., N-1 in ascending order, once each,
\* a failing seed being recorded without stopping the seeds after it; the
\* exit code is 1 exactly when some seed's verifier result is not empty,
\* and 0 otherwise.
C13_FuzzHarness ==
    cli.mode = "fuzz" =>
        /\ \A i \in 1..Len(cli.built) : cli.built[i] = i - 1
        /\ \A i \in 1..Len(cli.verified) : cli.verified[i].seed = i - 1
        /\ Len(cli.verified) <= Len(cli.built)
        /\ Len(cli.built) <= Len(cli.verified) + 1
        /\ Len(cli.built) <= cli.n
        /\ pc = "init" => grid = NewGrid(cfg) /\ surface_line = <<>>
        /\ cli.failed_seeds =
              SelectSeq(cli.built,
                        LAMBDA k : /\ k + 1 <= Len(cli.verified)
                                   /\ cli.verified[k + 1].failures # {})
        /\ (pc = "main" /\ cli.verified # <<>>) =>
              cli.verified[Len(cli.verified)].failures
                  = VerifyFailures(grid, surface_line)
        /\ pc = "exit" =>
              /\ Len(cli.built) = cli.n
              /\ Len(cli.verified) = cli.n
              /\ cli.exit \in {0, 1}
              /\ cli.exit = 1 <=>
                    \E i \in 1..cli.n : cli.verified[i].failures # {}

\* a fuzz run of two seeds whose first seed fails and whose second passes
C13_Witness ==
    /\ pc = "exit"
    /\ cli.mode = "fuzz"
    /\ cli.n = 2
    /\ cli.verified[1].failures # {}
    /\ cli.verified[2].failures = {}
    /\ cli.exit = 1

\* C14: in single-seed mode the pipeline runs once, then blueprint.png,
\* blueprint.csv and blueprint.tmx are written, and only then, under
\* --verify, the verifier runs; the exit code is 1 exactly when --verify is
\* set and the verifier's list is not empty, the three files being written
\* by then, and 0 without --verify.
C14_SingleMode ==
    cli.mode = "single" =>
        /\ Len(cli.built) <= 1
        /\ cli.files = SubSeq(ExportOrder, 1, Len(cli.files))
        /\ cli.files # <<>> =>
              pc \in {"done", "exported", "exit"} /\ Len(cli.built) = 1
        /\ cli.verified # <<>> => cli.verify /\ cli.files = ExportOrder
        /\ pc = "exit" =>
              /\ cli.files = ExportOrder
              /\ cli.exit \in {0, 1}
              /\ Len(cli.verified) = (IF cli.verify THEN 1 ELSE 0)
              /\ cli.verify =>
                    cli.verified[1].failures
                        = VerifyFailures(grid, surface_line)
              /\ cli.exit = 1 <=>
                    cli.verify /\ cli.verified[1].failures # {}

\* a single-seed run under --verify that exits with 1, its files written
C14_Witness ==
    /\ pc = "exit"
    /\ cli.mode = "single"
    /\ cli.verify
    /\ cli.verified[1].failures # {}
    /\ cli.files = ExportOrder
    /\ cli.exit = 1

\* the T_TOP cells of rows 1..h-1 whose upper neighbour is not T_AIR,
\* T_SPAWN or T_GOAL
TopOffenders(g) ==
    {c \in Positions(g, T_TOP) :
        c[2] >= 1 /\ g[c[2] - 1][c[1]] \notin {T_AIR, T_SPAWN, T_GOAL}}

\* c comes no later than d in row-major order
RowMajorLeq(c, d) == c[2] < d[2] \/ (c[2] = d[2] /\ c[1] <= d[1])

\* C16: rule 4 of the verifier appends at most one failure, the one for
\* the first T_TOP cell in row-major order over rows 1..height-1 whose upper
\* neighbour is not Air, Spawn or Goal, and appends none exactly when no
\* such cell exists.
C16_TopFirstOnly ==
    (cli.verified # <<>> /\ pc \in {"main", "exit"}) =>
        LET last == cli.verified[Len(cli.verified)]
            top == last.top
            off == TopOffenders(grid)
        IN  /\ Len(top) <= 1
            /\ top = <<>> <=> off = {}
            /\ ("top" \in last.failures) <=> top # <<>>
            /\ top # <<>> =>
                  /\ <<top[1].x, top[1].y>> \in off
                  /\ \A d \in off : RowMajorLeq(<<top[1].x, top[1].y>>, d)
                  /\ top[1].above = grid[top[1].y - 1][top[1].x]

\* a verified grid with offending T_TOP cells in two rows, the second row's
\* offender in an earlier column
C16_Witness ==
    /\ cli.verified # <<>>
    /\ pc = "exit"
    /\ \E c, d \in TopOffenders(grid) : c[2] < d[2] /\ d[1] < c[1]
    /\ Len(cli.verified[1].top) = 1

\* the grid has cfg.height rows of cfg.width cells, each of a tile kind
WellFormed ==
    /\ DOMAIN grid = Range(0, H)
    /\ \A y \in Range(0, H) :
          /\ DOMAIN grid[y] = Range(0, W)
          /\ \A x \in Range(0, W) : grid[y][x] \in TileKinds

\* no column of the surface has been carved yet
BeforeSurface == pc \in {"init", "surface"} \/ (pc = "surface_loop" /\ wx = 0)

\* C17: in every state of the pipeline every cell holds one of the five
\* kinds Air, Top, Fill, Goal, Spawn; the dimensions of the grid never
\* change; the grid is all Fill before the surface is carved; and the final
\* grid holds at most one Goal cell.
C17_TileKinds ==
    /\ [](/\ WellFormed
          /\ BeforeSurface => Positions(grid, T_FILL) = Range(0, W) \X Range(0, H)
          /\ pc = "done" => Cardinality(Positions(grid, T_GOAL)) <= 1)
    /\ [][/\ cfg'.width = cfg.width
          /\ cfg'.height = cfg.height
          /\ DOMAIN grid' = DOMAIN grid
          /\ \A y \in DOMAIN grid : DOMAIN grid'[y] = DOMAIN grid[y]]_vars

\* a finished grid that holds all five kinds, with its one goal
C17_Witness ==
    /\ pc = "done"
    /\ Cardinality(Positions(grid, T_GOAL)) = 1
    /\ \A k \in TileKinds : Positions(grid, k) # {}

\* the cell step 8 wrote the spawn onto
SpawnCell == <<spawn[1], NumpyRow(spawn[2], H)>>

\* the cells that were Air when the goal was selected: the Air cells of
\* the grid step 8 started from, less the spawn cell
Candidates == AirCells(prev) \ {SpawnCell}

\* 2*row + |col - spawn_col| + |row - spawn_row|
Score(c) == 2 * c[2] + Abs(c[1] - spawn[1]) + Abs(c[2] - spawn[2])

\* the scan (rows from bottom to top, columns left to right within a row)
\* finds c before d
FoundBefore(c, d) == c[2] > d[2] \/ (c[2] = d[2] /\ c[1] < d[1])

\* step 8 has just run and has placed a goal
GoalPlaced == pc = "top" /\ goal # <<>>

\* C18 as stated: among the Air cells of maximal score the one the scan
\* finds last receives the goal.
C18_LastFoundWins ==
    GoalPlaced =>
        \A d \in Candidates :
            (d # goal /\ Score(d) = Score(goal)) => FoundBefore(d, goal)

\* C18: when several Air cells share the maximal goal score, the cell the
\* scan (rows from bottom to top, columns left to right within a row) finds
\* first is the one that receives Goal.
C18_FirstFoundWins ==
    GoalPlaced =>
        /\ grid[goal[2]][goal[1]] = T_GOAL
        /\ \A d \in Candidates :
              (d # goal /\ Score(d) = Score(goal)) => FoundBefore(goal, d)

\* a goal placed where a second cell has the same, maximal score
C18_Witness ==
    /\ GoalPlaced
    /\ \E d \in Candidates : d # goal /\ Score(d) = Score(goal)
    /\ \A d \in Candidates : Score(d) <= Score(goal)

\* C19: the goal is written onto a cell that was Air when it was selected
\* and whose score 2*row + |col - spawn_col| + |row - spawn_row| is maximal
\* among all Air cells; the spawn cell is never a candidate; without any Air
\* cell no goal is written and no other cell changes.
C19_GoalSelection ==
    pc = "top" =>
        LET g1 == SetCells(prev, {SpawnCell}, T_SPAWN)
        IN  IF Candidates = {}
            THEN /\ goal = <<>>
                 /\ Positions(grid, T_GOAL) = {}
                 /\ grid = g1
            ELSE /\ goal \in Candidates
                 /\ prev[goal[2]][goal[1]] = T_AIR
                 /\ goal # SpawnCell
                 /\ \A d \in Candidates : Score(d) <= Score(goal)
                 /\ grid = SetCells(g1, {goal}, T_GOAL)

\* a goal placed on a grid where the spawn was written onto an Air cell and
\* Air cells of lower score exist
C19_Witness ==
    /\ GoalPlaced
    /\ prev[SpawnCell[2]][SpawnCell[1]] = T_AIR
    /\ \E d \in Candidates : Score(d) < Score(goal)

\* a grid without any Air cell besides the spawn's, left without a goal
C19_NoAir ==
    /\ pc = "top"
    /\ Candidates = {}
    /\ goal = <<>>

\* C20 as stated: the goal lies in the deepest row that holds an Air cell;
\* no Air cell lies in a row below the goal's row.
C20_GoalDeepest ==
    GoalPlaced => \A d \in Candidates : d[2] <= goal[2]

\* the candidate columns [max(5, w//2 - w//4), min(w - 5, w//2 + w//4))
CandidateColumns ==
    {x \in 0..(W - 1) :
        /\ x >= 5 /\ x >= W \div 2 - W \div 4
        /\ x < W - 5 /\ x < W \div 2 + W \div 4}

\* max minus min of the surface line over the columns x-2..x+2
WindowSpread(x) ==
    LET vals == {surface_line[i] : i \in {j \in (x - 2)..(x + 2) : j >= 0 /\ j < W}}
    IN  CHOOSE d \in 0..H : \E a, b \in vals :
            /\ d = a - b
            /\ \A v \in vals : v <= a /\ b <= v

\* flatness*10 + |x - width//2|
ColumnScore(x) == WindowSpread(x) * 10 + Abs(x - W \div 2)

\* C21: the spawn column minimises flatness*10 + |x - width//2| over the
\* candidate columns, flatness being max minus min of the surface line over
\* x-2..x+2; of several columns of minimal score the leftmost is chosen;
\* without candidate columns the centre column width//2 is used.
C21_SpawnSelection ==
    (pc = "top" /\ spawn # <<>>) =>
        IF CandidateColumns = {} THEN spawn[1] = W \div 2
        ELSE /\ spawn[1] \in CandidateColumns
             /\ \A x \in CandidateColumns : ColumnScore(spawn[1]) <= ColumnScore(x)
             /\ \A x \in CandidateColumns :
                   ColumnScore(x) = ColumnScore(spawn[1]) => spawn[1] <= x

\* a spawn left of the centre column, chosen over it for its flatter
\* window, with a column of the same score further right
C21_Witness ==
    /\ pc = "top" /\ spawn # <<>>
    /\ spawn[1] < W \div 2
    /\ ColumnScore(W \div 2) > ColumnScore(spawn[1])
    /\ \E x \in CandidateColumns :
          x > spawn[1] /\ ColumnScore(x) = ColumnScore(spawn[1])

\* step 2 has just returned
SurfaceCarved == pc = "tunnels" /\ ti = 0

SkyContiguous ==
    /\ OneRegion(AirCells(grid))
    /\ \A x \in 0..(W - 1) : \E y \in 0..(H - 1) : grid[y][x] = T_AIR

\* C23 as stated: after the surface carver, whatever the height steps, the
\* Air cells form exactly one 4-connected region that has a cell in every
\* column.
C23_SkyContiguous == SurfaceCarved => SkyContiguous

\* C23: with surface_y_min >= 1, after the surface carver, whatever the
\* height steps, the Air cells form exactly one 4-connected region that has
\* a cell in every column.
C23_SkyContiguousBelowRow0 ==
    (SurfaceCarved /\ cfg.surface_y_min >= 1) => SkyContiguous

\* a carved surface of two heights below row 0
C23_Witness ==
    /\ SurfaceCarved
    /\ cfg.surface_y_min >= 1
    /\ \E x \in 0..(W - 2) : surface_line[x + 1] # surface_line[x]
    /\ AirCells(grid) # {}

\* the step taken is one iteration of the main walk's loop
WalkStep == pc = "walk" /\ pc' \in {"walk", "branch"}

\* the step taken ends the main walk
WalkStop == pc = "walk" /\ pc' = "tunnels"

\* C24: during a main tunnel walk the row never decreases and grows by 0, 1
\* or 2 per step; the column changes by at most 1 per step and after a
\* lateral move lies in [half, width-1-half]; the walk goes on while the row
\* is below height - 5 and stops when it is not; every cell a step writes
\* lies inside the grid and becomes Air.
C24_WalkSteps ==
    [][/\ WalkStep =>
            /\ wy < H - 5
            /\ wy' - wy \in {0, 1, 2}
            /\ Abs(wx' - wx) <= 1
            /\ lastMove'.dir \in {"left", "right"} =>
                  (cfg.tunnel_min_width \div 2 <= wx'
                     /\ wx' <= W - 1 - cfg.tunnel_min_width \div 2)
            /\ DOMAIN grid' = DOMAIN grid
            /\ \A y \in 0..(H - 1) :
                  /\ DOMAIN grid'[y] = DOMAIN grid[y]
                  /\ \A x \in 0..(W - 1) :
                        grid'[y][x] # grid[y][x] =>
                            /\ grid'[y][x] = T_AIR
                            /\ Abs(x - wx) <= cfg.tunnel_min_width \div 2
                            /\ wy <= y /\ y < wy + cfg.tunnel_vertical_clearance
       /\ WalkStop => (wy >= H - 5 /\ grid' = grid)]_vars

\* a walk at the left margin after a lateral move taken together with the
\* extra downward step, its cross-section cut by the edge of the grid
C24_Witness ==
    /\ pc = "walk"
    /\ lastMove.dir = "left"
    /\ lastMove.extra
    /\ wx = cfg.tunnel_min_width \div 2
    /\ wy >= H - 5
    /\ \E x \in 0..(W - 1) : surface_line[x] # surface_line[0]

\* the Fill cells of rows >= 1 of g whose upper neighbour is of a kind in K
FillBelow(g, K) ==
    {c \in Positions(g, T_FILL) : c[2] >= 1 /\ g[c[2] - 1][c[1]] \in K}

\* step 9 changed Fill cells only, and those to Top
TopFrame ==
    \A y \in 0..(H - 1), x \in 0..(W - 1) :
        grid[y][x] # prev[y][x] => (prev[y][x] = T_FILL /\ grid[y][x] = T_TOP)

\* C25 as stated: in the final grid no Fill cell in rows >= 1 has an Air,
\* Spawn or Goal cell directly above it, and the top-tile deriver changed
\* only Fill cells, to Top.
C25_TopComplete ==
    pc = "done" =>
        /\ FillBelow(grid, {T_AIR, T_SPAWN, T_GOAL}) = {}
        /\ TopFrame

\* what holds of the final grid: no Fill cell has an Air cell above it, the
\* deriver changed only Fill cells, and every Fill cell left below an open
\* cell lies below the spawn or the goal
C25_TopBelowAir ==
    pc = "done" =>
        /\ FillBelow(grid, {T_AIR}) = {}
        /\ TopFrame
        /\ \A c \in FillBelow(grid, {T_SPAWN, T_GOAL}) : prev[c[2]][c[1]] = T_FILL

\* the largest entry of the surface line
MaxSurface ==
    CHOOSE m \in {surface_line[x] : x \in 0..(W - 1)} :
        \A x \in 0..(W - 1) : surface_line[x] <= m

\* column x of g has only Air in rows surface_line[x] ..
\* min(max(surface_line) + 7, height) - 1
AirColumn(g, x) ==
    \A y \in 0..(H - 1) :
        (surface_line[x] <= y /\ y < MaxSurface + 7) => g[y][x] = T_AIR

\* the cells of columns width//2 - half .. width//2 + half and rows
\* surface_line[width//2] .. min(max(surface_line) + 12, height) - 1
ShaftBox ==
    {c \in (0..(W - 1)) \X (0..(H - 1)) :
        /\ Abs(c[1] - W \div 2) <= cfg.tunnel_min_width \div 2
        /\ surface_line[W \div 2] <= c[2]
        /\ c[2] < MaxSurface + 12}

\* C26: if some column already has only Air in rows surface_line[x] ..
\* min(max(surface_line)+7, height)-1 the entry checker leaves the grid
\* unchanged; otherwise the cells it changes lie in columns width//2 - half
\* .. width//2 + half and rows surface_line[width//2] ..
\* min(max(surface_line)+12, height)-1, and all cells there become Air.
C26_EntryFrame ==
    pc = "spawn_goal" =>
        IF \E x \in 0..(W - 1) : AirColumn(prev, x)
        THEN grid = prev
        ELSE /\ \A c \in ShaftBox : grid[c[2]][c[1]] = T_AIR
             /\ \A y \in 0..(H - 1), x \in 0..(W - 1) :
                   grid[y][x] # prev[y][x] => <<x, y>> \in ShaftBox

\* an entry check that found no column and carved a shaft through cells of
\* which some were Air before and some were not
C26_Witness ==
    /\ pc = "spawn_goal"
    /\ ~(\E x \in 0..(W - 1) : AirColumn(prev, x))
    /\ \E c \in ShaftBox : prev[c[2]][c[1]] = T_AIR
    /\ \E c \in ShaftBox : prev[c[2]][c[1]] = T_FILL
    /\ \E x \in 0..(W - 1) : Abs(x - W \div 2) > cfg.tunnel_min_width \div 2

\* an entry check that found a column in a grid with a cave or tunnel
C26_Found ==
    /\ pc = "spawn_goal"
    /\ \E x \in 0..(W - 1) : AirColumn(prev, x)
    /\ cfg.num_tunnels > 0

\* the run of one seed on its own has ended, after a fuzz run whose
\* per-seed results `first` holds
AloneDone == cli.mode = "single" /\ pc = "exit" /\ first # <<>>

\* C27: the grid, surface line and verifier result of seed s inside a fuzz
\* run of N seeds equal those of seed s run alone with the same dimensions
\* and counts; a new generator starts from an all-Fill grid and from the
\* first place of its own seed's stream, whatever the seed before it did.
C27_FuzzIndependence ==
    /\ AloneDone =>
          LET r == first[cli.seed + 1]
              a == cli.verified[1]
          IN  /\ r.seed = cli.seed
              /\ a.grid = r.grid
              /\ a.surface_line = r.surface_line
              /\ a.failures = r.failures
              /\ a.top = r.top
    /\ (cli.mode = "fuzz" /\ pc = "init") =>
          /\ grid = NewGrid(cfg)
          /\ surface_line = <<>>
          /\ pos = 0
          /\ tape = <<>>

\* the second seed of a fuzz run, run alone, after a fuzz run in which the
\* two seeds gave different grids and different verifier results
C27_Witness ==
    /\ AloneDone
    /\ cli.seed = 1
    /\ first[1].grid # first[2].grid
    /\ first[1].failures # first[2].failures
    /\ cli.verified[1].grid = first[2].grid

\* the default cross-section below a surface that leaves row 0 to the sky
DefaultSection ==
    /\ cfg.tunnel_min_width = 3
    /\ cfg.tunnel_vertical_clearance = 3
    /\ cfg.surface_y_min >= 1

\* the in-grid cells of the 3 x 3 block a walker at (x, y) carves
Block(x, y) ==
    {c \in (0..(W - 1)) \X (0..(H - 1)) :
        Abs(c[1] - x) <= 1 /\ y <= c[2] /\ c[2] <= y + 2}

\* between the return of step 2 and the first cave
TunnelStage ==
    pc \in {"tunnels", "walk", "branch"} \/ (pc = "caves" /\ ci = 0)

\* C28: with the default cross-section and surface_y_min >= 1 the blocks a
\* main tunnel walk carves form a 4-connected Air set, whatever the moves
\* (each block shares a cell with the block carved before it, also after a
\* lateral move with the extra downward step); the first block touches the
\* sky at the start column; so during and right after tunnel carving sky
\* and tunnels are one Air region, which then reaches row height - 6.
C28_TunnelAttached ==
    /\ []((TunnelStage /\ DefaultSection) => OneRegion(AirCells(grid)))
    /\ []((pc = "caves" /\ ci = 0 /\ DefaultSection /\ cfg.num_tunnels >= 1) =>
            \E c \in AirCells(grid) : c[2] >= H - 6)
    /\ [][(WalkStep /\ DefaultSection) =>
            /\ OneRegion(Block(wx, wy))
            /\ \A c \in Block(wx, wy) : grid'[c[2]][c[1]] = T_AIR
            /\ wy' < H - 5 => Block(wx, wy) \cap Block(wx', wy') # {}
            /\ lastMove = NoMove =>
                  /\ <<wx, wy>> \in Block(wx, wy)
                  /\ wy = surface_line[wx]
                  /\ grid[wy - 1][wx] = T_AIR]_vars

\* the second tunnel of a grid under way after a move to the right taken
\* together with the extra downward step
C28_Witness ==
    /\ pc = "walk"
    /\ DefaultSection
    /\ ti = 1
    /\ lastMove = [dir |-> "right", extra |-> TRUE]
    /\ wy < H - 5
    /\ OneRegion(AirCells(grid))

\* the cells a diver can be in: Air, Spawn and Goal
PassableCells(g) ==
    {c \in Range(0, W) \X Range(0, H) : g[c[2]][c[1]] \in {T_AIR, T_SPAWN, T_GOAL}}

\* the cells whose tile differs between two grids
ChangedCells(g1, g2) ==
    {c \in Range(0, W) \X Range(0, H) : g1[c[2]][c[1]] # g2[c[2]][c[1]]}

\* the stages that carve: surface, tunnels, caves, connectivity merger and
\* entry check
CarverStage ==
    pc \in {"surface", "surface_loop", "tunnels", "walk", "branch", "caves",
            "connect", "connect_loop", "entry"}

\* the stages that run after the region filter
AfterFilter ==
    pc \in {"connect", "connect_loop", "entry", "spawn_goal", "top"}

\* C29: with surface_y_min >= 1, a step of the surface, tunnel or cave
\* carver, of the connectivity merger or of the entry check changes cells
\* only to Air; a step that turns an open cell (Air, Spawn, Goal) into a
\* solid one is a step of the region filter; from stage 6 to the end every
\* step keeps the open cells it found, so their set only grows.
C29_OpenCellsKept ==
    [][cfg.surface_y_min >= 1 =>
        /\ CarverStage =>
              \A c \in ChangedCells(grid, grid') : grid'[c[2]][c[1]] = T_AIR
        /\ ~(PassableCells(grid) \subseteq PassableCells(grid')) => pc = "filter"
        /\ AfterFilter => PassableCells(grid) \subseteq PassableCells(grid')]_vars

\* a finished grid whose entry shaft was carved after the filter and whose
\* last stage marked some cell T_TOP, with every open cell kept
C29_Witness ==
    /\ pc = "done"
    /\ cfg.surface_y_min >= 1
    /\ entry = "carved"
    /\ spawn # <<>>
    /\ goal # <<>>
    /\ ChangedCells(prev, grid) # {}
    /\ PassableCells(prev) = PassableCells(grid)

\* no T_TOP cell in row 0
NoTopInRow0(g) == \A c \in Positions(g, T_TOP) : c[2] >= 1

\* C30: step 9 puts no T_TOP into row 0; and on a grid with no T_TOP in
\* row 0 on which rule 4 appends no failure, every T_TOP cell has an open
\* cell among the three cells above it (the one directly above), so rule 5
\* counts no failure whichever T_TOP cells it samples and appends nothing.
C30_ClearanceImplied ==
    /\ [][pc = "top" =>
            \A c \in Positions(grid', T_TOP) \ Positions(grid, T_TOP) : c[2] >= 1]_vars
    /\ []((NoTopInRow0(grid) /\ VerifyTopFailures(grid) = <<>>) =>
            /\ \A c \in Positions(grid, T_TOP) :
                  grid[c[2] - 1][c[1]] \in {T_AIR, T_SPAWN, T_GOAL}
            /\ ClearanceFails(grid) = {}
            /\ VerifyClearance(grid))
    /\ []((pc = "exit" /\ cli.verified # <<>> /\ NoTopInRow0(grid)
            /\ "top" \notin cli.verified[1].failures) =>
            "clearance" \notin cli.verified[1].failures)

\* a verified grid of step 9 with a T_TOP cell below row 2 whose only open
\* cell among the three above it is the one directly above
C30_Witness ==
    /\ pc = "exit"
    /\ cli.verified # <<>>
    /\ prev # grid
    /\ NoTopInRow0(grid)
    /\ "top" \notin cli.verified[1].failures
    /\ "clearance" \notin cli.verified[1].failures
    /\ \E c \in Positions(grid, T_TOP) :
          /\ c[2] >= 3
          /\ grid[c[2] - 1][c[1]] = T_AIR
          /\ grid[c[2] - 2][c[1]] = T_FILL
          /\ grid[c[2] - 3][c[1]] = T_FILL

\* text.split(sep): the pieces of text between the occurrences of sep
RECURSIVE SplitOn(_, _)
SplitOn(text, sep) ==
    IF \A i \in 1..Len(text) : text[i] # sep THEN <<text>>
    ELSE LET i == CHOOSE k \in 1..Len(text) :
                    text[k] = sep /\ \A j \in 1..(k - 1) : text[j] # sep
         IN  <<SubSeq(text, 1, i - 1)>> \o SplitOn(SubSeq(text, i + 1, Len(text)), sep)

\* the lines of a text: a final "\n" ends the last line and starts none
Lines(text) ==
    LET parts == SplitOn(text, "\n")
    IN  IF parts[Len(parts)] = <<>> THEN SubSeq(parts, 1, Len(parts) - 1)
        ELSE parts

\* int(field) of a field of decimal digits; -1 for a field that is none
RECURSIVE ParseInt(_)
ParseInt(field) ==
    IF field = <<>> \/ \E i \in 1..Len(field) : \A d \in 1..10 : Digit[d] # field[i]
    THEN -1
    ELSE LET last == (CHOOSE d \in 1..10 : Digit[d] = field[Len(field)]) - 1
         IN  IF Len(field) = 1 THEN last
             ELSE ParseInt(SubSeq(field, 1, Len(field) - 1)) * 10 + last

\* the grid a CSV text holds: one row per line, one cell per field
ParseCsv(text) ==
    LET lines == Lines(text)
    IN  [y \in Range(0, Len(lines)) |->
            LET fields == SplitOn(lines[y + 1], ",")
            IN  [x \in Range(0, Len(fields)) |-> ParseInt(fields[x + 1])]]

\* C15: for every grid over the five tile kinds export_csv writes exactly
\* height lines, top row first, each of exactly width comma-separated
\* integers and each ended by a newline, without a header; parsing the
\* lines back gives the grid that was exported.
C15_CsvRoundTrip ==
    (\E i \in 1..Len(cli.files) : cli.files[i] = "csv") =>
        LET lines == Lines(cli.csv)
        IN  /\ Len(lines) = H
            /\ Cardinality({i \in 1..Len(cli.csv) : cli.csv[i] = "\n"}) = H
            /\ cli.csv[Len(cli.csv)] = "\n"
            /\ \A i \in 1..Len(lines) :
                  LET fields == SplitOn(lines[i], ",")
                  IN  /\ Len(fields) = W
                      /\ \A j \in 1..W : ParseInt(fields[j]) = grid[i - 1][j - 1]
            /\ ParseCsv(cli.csv) = grid

\* a written grid of several rows and columns that holds a spawn and a goal
C15_Witness ==
    /\ \E i \in 1..Len(cli.files) : cli.files[i] = "csv"
    /\ W >= 2 /\ H >= 2
    /\ grid[0][0] = T_SPAWN
    /\ grid[H - 1][W - 1] = T_GOAL
    /\ grid[0][W - 1] = T_AIR
    /\ grid[H - 1][0] = T_TOP

Next ==
    \/ Step1Init
    \/ Step2Begin
    \/ Step2Column
    \/ Step2End
    \/ TunnelStart
    \/ TunnelStep
    \/ BranchStep
    \/ TunnelReturn
    \/ Step3End
    \/ Step4Cave
    \/ Step4End
    \/ Step5Filter
    \/ ConnectBegin
    \/ ConnectSkip
    \/ ConnectRegion
    \/ ConnectEnd
    \/ Step7EntryCheck
    \/ Step8SpawnGoal
    \/ Step9TopDetection

Spec == Init /\ [][Next]_vars

\* the runs of every configuration, the degenerate ones included
InitAny == \E c \in AnyCfgs : Construct(c, 0)

SpecAny == InitAny /\ [][Next]_vars

\* generate() keeps running until it returns: no step of the pipeline waits
\* The run from construction to the return of the tunnel stage, the only
\* stage whose loop is not a loop over a fixed range; the program is
\* sequential, so a step that can be taken is taken.
InitLive == \E c \in {TunnelCfg, BranchCfg} : Construct(c, 0)

NextLive ==
    \/ Step1Init
    \/ Step2Begin
    \/ Step2Column
    \/ Step2End
    \/ TunnelStart
    \/ TunnelStep
    \/ BranchStep
    \/ TunnelReturn
    \/ Step3End

SpecLive == InitLive /\ [][NextLive]_vars /\ WF_vars(NextLive)

----------------------------------------------------------------------------
(* A single stage run on an arbitrary grid of T_AIR and T_FILL cells       *)

StageGrids == [Range(0, StageH) -> [Range(0, StageW) -> {T_AIR, T_FILL}]]

StageCfg == [TunnelCfg EXCEPT !.width = StageW, !.height = StageH]

\* the generator with grid g, about to run the stage at p
Stage(c, p, g) ==
    /\ cfg = c
    /\ pc = p
    /\ grid = g
    /\ surface = <<>>
    /\ surface_line = <<>>
    /\ wx = 0 /\ wy = 0
    /\ lastMove = NoMove
    /\ br = NoBranch
    /\ ti = 0 /\ ci = 0
    /\ regions = <<>> /\ ri = 0 /\ surface_set = {}
    /\ link = <<>>
    /\ entry = "none"
    /\ spawn = <<>> /\ goal = <<>>
    /\ fault = "none"
    /\ prev = g
    /\ run = 0
    /\ tape = <<>> /\ pos = 0
    /\ first = <<>>
    /\ cli = NoCli

InitFilter ==
    \E m \in {2, 3}, g \in StageGrids :
        Stage([StageCfg EXCEPT !.min_region_size = m], "filter", g)

NextFilter == Step5Filter

SpecFilter == InitFilter /\ [][NextFilter]_vars

InitConnect ==
    \E tw \in {1, 3}, g \in StageGrids :
        Stage([StageCfg EXCEPT !.tunnel_min_width = tw], "connect", g)

NextConnect ==
    \/ ConnectBegin
    \/ ConnectSkip
    \/ ConnectRegion
    \/ ConnectEnd

SpecConnect == InitConnect /\ [][NextConnect]_vars

\* every grid of TopW x TopH cells of the five tile kinds
TopGrids == [Range(0, TopH) -> [Range(0, TopW) -> TileKinds]]

InitTop ==
    \E g \in TopGrids :
        Stage([TunnelCfg EXCEPT !.width = TopW, !.height = TopH], "top", g)

NextTop ==
    \/ Step9TopDetection
    \/ Step9Again

SpecTop == InitTop /\ [][NextTop]_vars

----------------------------------------------------------------------------
(* main() with --num-tunnels 0 --num-caves 0 on a wide and low grid, where *)
(* the seed decides whether the verifier passes                            *)

\* 20 columns, 4 rows, no tunnels and no caves.  surface_step_max = 0
\* keeps, of the surfaces the draws of step 2 can produce, the two flat
\* ones, at row 1 and at row 2: with the surface at row 2 a sky cell at the
\* left edge outscores the bottom of the entry shaft and the goal is too
\* shallow for rule 3; with the surface at row 1 every rule passes.
ShallowCfg ==
    [TunnelCfg EXCEPT !.width = 20, !.height = 4, !.surface_step_max = 0,
                      !.num_tunnels = 0]

\* main() entered with the arguments k, no generator constructed yet;
\* r # 0 keeps the streams of the seeds
MainRun(c, k, r) ==
    /\ cfg = c
    /\ pc = "main"
    /\ grid = NewGrid(c)
    /\ surface = <<>>
    /\ surface_line = <<>>
    /\ wx = 0 /\ wy = 0
    /\ lastMove = NoMove
    /\ br = NoBranch
    /\ ti = 0 /\ ci = 0
    /\ regions = <<>> /\ ri = 0 /\ surface_set = {}
    /\ link = <<>>
    /\ entry = "none"
    /\ spawn = <<>> /\ goal = <<>>
    /\ fault = "none"
    /\ prev = NewGrid(c)
    /\ run = r
    /\ tape = <<>> /\ pos = 0
    /\ first = <<>>
    /\ cli = k

Main(c, k) == MainRun(c, k, 0)

InitCli ==
    \/ \E n \in 1..MaxFuzz :
          Main(ShallowCfg, [NoCli EXCEPT !.mode = "fuzz", !.n = n])
    \/ \E v \in BOOLEAN :
          Main(ShallowCfg, [NoCli EXCEPT !.mode = "single", !.verify = v])

NextCli ==
    \/ FuzzConstruct
    \/ FuzzVerify
    \/ FuzzReturn
    \/ SingleConstruct
    \/ Export
    \/ SingleVerify
    \/ SingleReturn
    \/ Step1Init
    \/ Step2Begin
    \/ Step2Column
    \/ Step2End
    \/ Step3End
    \/ Step4End
    \/ Step5Filter
    \/ ConnectBegin
    \/ Step7EntryCheck
    \/ Step8SpawnGoal
    \/ Step9TopDetection

SpecCli == InitCli /\ [][NextCli]_vars

----------------------------------------------------------------------------
(* The exports of main() on an arbitrary grid of the five tile kinds       *)

\* main() after generate() has returned with grid g
Generated(c, g, k) ==
    /\ cfg = c
    /\ pc = "done"
    /\ grid = g
    /\ surface = <<>>
    /\ surface_line = <<>>
    /\ wx = 0 /\ wy = 0
    /\ lastMove = NoMove
    /\ br = NoBranch
    /\ ti = 0 /\ ci = 0
    /\ regions = <<>> /\ ri = 0 /\ surface_set = {}
    /\ link = <<>>
    /\ entry = "none"
    /\ spawn = <<>> /\ goal = <<>>
    /\ fault = "none"
    /\ prev = g
    /\ run = 0
    /\ tape = <<>> /\ pos = 0
    /\ first = <<>>
    /\ cli = k

InitCsv ==
    \E w \in 1..CsvW, h \in 1..CsvH :
        \E g \in [Range(0, h) -> [Range(0, w) -> TileKinds]] :
            Generated([TunnelCfg EXCEPT !.width = w, !.height = h], g,
                      [NoCli EXCEPT !.mode = "single", !.built = <<0>>])

NextCsv ==
    \/ Export
    \/ SingleReturn

SpecCsv == InitCsv /\ [][NextCsv]_vars

----------------------------------------------------------------------------
(* verify_blueprint under --verify on an arbitrary grid of the five tile   *)
(* kinds                                                                   *)

\* main() after the exports, with grid g and a surface line of row sy
Exported(c, g, sy) ==
    /\ cfg = c
    /\ pc = "exported"
    /\ grid = g
    /\ surface = <<>>
    /\ surface_line = [x \in Range(0, c.width) |-> sy]
    /\ wx = 0 /\ wy = 0
    /\ lastMove = NoMove
    /\ br = NoBranch
    /\ ti = 0 /\ ci = 0
    /\ regions = <<>> /\ ri = 0 /\ surface_set = {}
    /\ link = <<>>
    /\ entry = "none"
    /\ spawn = <<>> /\ goal = <<>>
    /\ fault = "none"
    /\ prev = g
    /\ run = 0
    /\ tape = <<>> /\ pos = 0
    /\ first = <<>>
    /\ cli = [NoCli EXCEPT !.mode = "single", !.verify = TRUE, !.built = <<0>>,
                           !.files = ExportOrder, !.csv = ExportCsv(g)]

InitVerify ==
    \E g \in TopGrids :
        Exported([TunnelCfg EXCEPT !.width = TopW, !.height = TopH], g, 1)

NextVerify == SingleVerify

SpecVerify == InitVerify /\ [][NextVerify]_vars

----------------------------------------------------------------------------
(* Step 8 on an arbitrary grid of T_AIR and T_FILL cells                   *)

\* the generator with grid g and a flat surface line of row sy, about to
\* run step 8
Carved(c, g, sy) ==
    /\ cfg = c
    /\ pc = "spawn_goal"
    /\ grid = g
    /\ surface = [x \in Range(0, c.width) |-> sy]
    /\ surface_line = [x \in Range(0, c.width) |-> sy]
    /\ wx = 0 /\ wy = 0
    /\ lastMove = NoMove
    /\ br = NoBranch
    /\ ti = 0 /\ ci = 0
    /\ regions = <<>> /\ ri = 0 /\ surface_set = {}
    /\ link = <<>>
    /\ entry = "none"
    /\ spawn = <<>> /\ goal = <<>>
    /\ fault = "none"
    /\ prev = g
    /\ run = 0
    /\ tape = <<>> /\ pos = 0
    /\ first = <<>>
    /\ cli = NoCli

InitGoal ==
    \E g \in StageGrids, sy \in 1..StageH : Carved(StageCfg, g, sy)

NextGoal == Step8SpawnGoal

SpecGoal == InitGoal /\ [][NextGoal]_vars

----------------------------------------------------------------------------
(* Step 8 on a grid wide enough for candidate columns on both sides of the *)
(* centre, below surface lines of three heights                            *)

SpawnStageCfg ==
    [TunnelCfg EXCEPT !.width = SpawnW, !.height = SpawnH,
                      !.surface_y_max = 3, !.surface_step_max = 2]

\* The surface lines of step 2 that take every combination of heights on
\* the columns some candidate window covers and stay level outside them.
SpawnSurfaces(c) ==
    LET centre == c.width \div 2
        lo == Max(0, Max(SpawnEdgeMargin, centre - c.width \div 4) - SpawnWindowHalf)
        hi == Min(c.width - 1,
                  Min(c.width - SpawnEdgeMargin, centre + c.width \div 4) - 1
                      + SpawnWindowHalf)
    IN  {[x \in Range(0, c.width) |-> p[Clip(x, lo, hi)]] :
            p \in [lo..hi -> c.surface_y_min..c.surface_y_max]}

\* the generator after step 2 carved the surface line sl, about to run
\* step 8
Surfaced(c, sl) ==
    LET g == [y \in Range(0, c.height) |-> [x \in Range(0, c.width) |->
                 IF y < sl[x] THEN T_AIR ELSE T_FILL]]
    IN  /\ cfg = c
        /\ pc = "spawn_goal"
        /\ grid = g
        /\ surface = sl
        /\ surface_line = sl
        /\ wx = 0 /\ wy = 0
        /\ lastMove = NoMove
        /\ br = NoBranch
        /\ ti = 0 /\ ci = 0
        /\ regions = <<>> /\ ri = 0 /\ surface_set = {}
        /\ link = <<>>
        /\ entry = "none"
        /\ spawn = <<>> /\ goal = <<>>
        /\ fault = "none"
        /\ prev = g
        /\ run = 0
        /\ tape = <<>> /\ pos = 0
        /\ first = <<>>
        /\ cli = NoCli

InitSpawn ==
    \E sl \in SpawnSurfaces(SpawnStageCfg) : Surfaced(SpawnStageCfg, sl)

NextSpawn == Step8SpawnGoal

SpecSpawn == InitSpawn /\ [][NextSpawn]_vars

----------------------------------------------------------------------------
(* A fuzz run of MaxFuzz seeds, then one of its seeds run alone in a new   *)
(* process                                                                 *)

\* 10 columns, 3 rows, a flat surface at row 1 or row 2: the surface row
\* decides whether the goal lands in the sky and rule 3 fails.
PairCfg == [ShallowCfg EXCEPT !.width = 10, !.height = 3]

\* python generate_blueprint.py --seed s --verify with the dimensions and
\* counts of the fuzz run that has ended; `first` keeps what the fuzz run
\* got for each seed
RunAlone ==
    /\ pc = "exit"
    /\ cli.mode = "fuzz"
    /\ \E s \in Range(0, cli.n) :
          cli' = [NoCli EXCEPT !.mode = "single", !.verify = TRUE, !.seed = s,
                               !.streams = cli.streams]
    /\ first' = cli.verified
    /\ pc' = "main"
    /\ grid' = NewGrid(cfg)
    /\ surface' = <<>>
    /\ surface_line' = <<>>
    /\ wx' = 0 /\ wy' = 0
    /\ lastMove' = NoMove
    /\ br' = NoBranch
    /\ ti' = 0 /\ ci' = 0
    /\ regions' = <<>> /\ ri' = 0 /\ surface_set' = {}
    /\ link' = <<>>
    /\ entry' = "none"
    /\ spawn' = <<>> /\ goal' = <<>>
    /\ prev' = NewGrid(cfg)
    /\ tape' = <<>> /\ pos' = 0
    /\ UNCHANGED <<cfg, fault, run>>

InitPair == MainRun(PairCfg, [NoCli EXCEPT !.mode = "fuzz", !.n = MaxFuzz], 1)

NextPair ==
    \/ FuzzConstruct
    \/ FuzzVerify
    \/ FuzzReturn
    \/ RunAlone
    \/ SingleConstruct
    \/ Export
    \/ SingleVerify
    \/ Step1Init
    \/ Step2Begin
    \/ Step2Column
    \/ Step2End
    \/ Step3End
    \/ Step4End
    \/ Step5Filter
    \/ ConnectBegin
    \/ Step7EntryCheck
    \/ Step8SpawnGoal
    \/ Step9TopDetection

SpecPair == InitPair /\ [][NextPair]_vars

----------------------------------------------------------------------------
(* Step 9, the exports and verify_blueprint on an arbitrary grid without   *)
(* T_TOP, next to verify_blueprint on an arbitrary grid of the five tile   *)
(* kinds                                                                   *)

\* ClearW columns, ClearH rows
ClearCfg == [TunnelCfg EXCEPT !.width = ClearW, !.height = ClearH]

\* every grid of ClearW x ClearH cells of the given tile kinds
ClearGrids(kinds) == [Range(0, ClearH) -> [Range(0, ClearW) -> kinds]]

\* main() with --verify inside generate(), about to run step 9 on grid g
Detecting(c, g, sy) ==
    /\ cfg = c
    /\ pc = "top"
    /\ grid = g
    /\ surface = <<>>
    /\ surface_line = [x \in Range(0, c.width) |-> sy]
    /\ wx = 0 /\ wy = 0
    /\ lastMove = NoMove
    /\ br = NoBranch
    /\ ti = 0 /\ ci = 0
    /\ regions = <<>> /\ ri = 0 /\ surface_set = {}
    /\ link = <<>>
    /\ entry = "none"
    /\ spawn = <<>> /\ goal = <<>>
    /\ fault = "none"
    /\ prev = g
    /\ run = 0
    /\ tape = <<>> /\ pos = 0
    /\ first = <<>>
    /\ cli = [NoCli EXCEPT !.mode = "single", !.verify = TRUE, !.built = <<0>>]

InitClear ==
    \/ \E g \in ClearGrids(TileKinds \ {T_TOP}) : Detecting(ClearCfg, g, 1)
    \/ \E g \in ClearGrids(TileKinds) : Exported(ClearCfg, g, 1)

NextClear ==
    \/ Step9TopDetection
    \/ Export
    \/ SingleVerify

SpecClear == InitClear /\ [][NextClear]_vars

----------------------------------------------------------------------------
(* Two generators built from one Config and seed, run one after the other  *)

\* one tunnel without branches
TwinTunnelCfg ==
    [TunnelCfg EXCEPT !.width = 3, !.height = 7, !.num_tunnels = 1,
                      !.tunnel_branch_pct = 0]

\* one cave below a flat surface
TwinCaveCfg == [CaveCfg EXCEPT !.height = 16, !.surface_step_max = 0]

InitTwin == \E c \in {TwinTunnelCfg, TwinCaveCfg} : Construct(c, 1)

NextTwin ==
    \/ Step1Init
    \/ Step2Begin
    \/ Step2Column
    \/ Step2End
    \/ TunnelStart
    \/ TunnelStep
    \/ TunnelReturn
    \/ Step3End
    \/ Step4Cave
    \/ Step4End
    \/ Step5Filter
    \/ ConnectBegin
    \/ ConnectSkip
    \/ ConnectRegion
    \/ ConnectEnd
    \/ Step7EntryCheck
    \/ Step8SpawnGoal
    \/ Step9TopDetection
    \/ Reconstruct

SpecTwin == InitTwin /\ [][NextTwin]_vars

====
